---------------------------- MODULE Spec2Model ----------------------------
(***************************************************************************)
(* Douro: periodic hosting-infrastructure probe.                           *)
(*                                                                         *)
(* The module models                                                       *)
(*   - the Pattern Store and the pure functions of RegionDetector          *)
(*     (douro/core/region_detector.py),                                    *)
(*   - analyze_domain, stage by stage (douro/core/analyzer.py), with the   *)
(*     region engine and the traceroute driver as the steps in between,    *)
(*   - DouroMetrics.update_metrics, sample by sample, next to a scraper    *)
(*     that reads the registry (douro/core/metrics.py).                    *)
(*                                                                         *)
(* Python strings are TLA+ strings; None is the sentinel None below.       *)
(* Python dicts whose iteration order matters are sequences of pairs.      *)
(***************************************************************************)
EXTENDS Integers, Sequences, FiniteSets, TLC

None == "<None>"

\* Python truthiness of an Optional[str]
Truthy(x) == x /= None /\ x /= ""

(***************************************************************************)
(* str helpers                                                             *)
(***************************************************************************)
CharAt(s, i) == SubSeq(s, i, i)

\* t in s
Contains(s, t) ==
  \E i \in 1..(Len(s) - Len(t) + 1) : SubSeq(s, i, i + Len(t) - 1) = t

\* s.startswith(t)
StartsWith(s, t) == Len(t) <= Len(s) /\ SubSeq(s, 1, Len(t)) = t

\* s.count(t) for a one-character t
CountChar(s, t) == Cardinality({i \in 1..Len(s) : CharAt(s, i) = t})

UpperLetters == "ABCDEFGHIJKLMNOPQRSTUVWXYZ"
LowerLetters == "abcdefghijklmnopqrstuvwxyz"
DecDigits == "0123456789"
HexLower == "0123456789abcdef"

IsDigit(c) == Len(c) = 1 /\ Contains(DecDigits, c)
IsLowerLetter(c) == Len(c) = 1 /\ Contains(LowerLetters, c)
IsUpperLetter(c) == Len(c) = 1 /\ Contains(UpperLetters, c)

\* 1-based index of the first occurrence of t in s, 0 when absent (s.find)
Find(s, t) ==
  IF Contains(s, t)
  THEN CHOOSE i \in 1..(Len(s) - Len(t) + 1) :
         /\ SubSeq(s, i, i + Len(t) - 1) = t
         /\ \A j \in 1..(i - 1) : SubSeq(s, j, j + Len(t) - 1) /= t
  ELSE 0

LowerChar(c) ==
  IF IsUpperLetter(c) THEN CharAt(LowerLetters, Find(UpperLetters, c)) ELSE c

\* s.lower()
RECURSIVE lower(_)
lower(s) == IF s = "" THEN "" ELSE LowerChar(Head(s)) \o lower(Tail(s))

\* s.split(sep)[-1] for a one-character sep
RECURSIVE LastField(_, _)
LastField(s, sep) ==
  IF ~Contains(s, sep) THEN s
  ELSE LastField(SubSeq(s, Find(s, sep) + 1, Len(s)), sep)

\* s.split(sep) for a one-character sep
RECURSIVE Split(_, _)
Split(s, sep) ==
  IF ~Contains(s, sep) THEN <<s>>
  ELSE <<SubSeq(s, 1, Find(s, sep) - 1)>>
         \o Split(SubSeq(s, Find(s, sep) + 1, Len(s)), sep)

\* int(s, 16); -1 stands for ValueError
RECURSIVE HexValue(_, _)
HexValue(s, acc) ==
  IF s = "" THEN acc
  ELSE LET d == Find(HexLower, LowerChar(Head(s)))
       IN IF d = 0 THEN -1 ELSE HexValue(Tail(s), acc * 16 + (d - 1))

int16(s) == IF s = "" THEN -1 ELSE HexValue(s, 0)

\* int(s); -1 stands for ValueError
RECURSIVE DecValue(_, _)
DecValue(s, acc) ==
  IF s = "" THEN acc
  ELSE LET d == Find(DecDigits, Head(s))
       IN IF d = 0 THEN -1 ELSE DecValue(Tail(s), acc * 10 + (d - 1))

int10(s) == IF s = "" THEN -1 ELSE DecValue(s, 0)

(***************************************************************************)
(* re.search for the regular expressions of the Pattern Store: literals,   *)
(* the escapes \. and \d, the wildcard . and the quantifiers * and +.      *)
(***************************************************************************)
AtomLen(p, k) == IF CharAt(p, k) = "\\" THEN 2 ELSE 1

AtomMatches(p, k, c) ==
  IF CharAt(p, k) = "\\"
  THEN IF CharAt(p, k + 1) = "d" THEN IsDigit(c) ELSE c = CharAt(p, k + 1)
  ELSE IF CharAt(p, k) = "." THEN c /= "\n"
  ELSE c = CharAt(p, k)

\* does pattern p, from its position k on, match s at position i
RECURSIVE re_match_at(_, _, _, _)
re_match_at(p, k, s, i) ==
  IF k > Len(p) THEN TRUE
  ELSE LET n == k + AtomLen(p, k)
           q == IF n <= Len(p) THEN CharAt(p, n) ELSE ""
           here == i <= Len(s) /\ AtomMatches(p, k, CharAt(s, i))
       IN IF q = "*"
          THEN re_match_at(p, n + 1, s, i) \/ (here /\ re_match_at(p, k, s, i + 1))
          ELSE IF q = "+"
          THEN here /\ (re_match_at(p, n + 1, s, i + 1) \/ re_match_at(p, k, s, i + 1))
          ELSE here /\ re_match_at(p, n, s, i + 1)

re_search(p, s) == \E i \in 1..(Len(s) + 1) : re_match_at(p, 1, s, i)

(***************************************************************************)
(* Pattern Store (RegionDetector.__init__ and the provider indicators of   *)
(* _identify_provider), in declared order.                                 *)
(***************************************************************************)
region_patterns ==
  <<
  <<"aws", <<
        <<"us-east-1", <<"us-east-1", "iad\\d*", "virginia", "use1">>>>,
        <<"us-east-2", <<"us-east-2", "cmh\\d*", "ohio", "use2">>>>,
        <<"us-west-1", <<"us-west-1", "sfo\\d*", "california", "usw1">>>>,
        <<"us-west-2", <<"us-west-2", "pdx\\d*", "oregon", "usw2">>>>,
        <<"eu-west-1", <<"eu-west-1", "dub\\d*", "ireland", "euw1">>>>,
        <<"eu-west-2", <<"eu-west-2", "lhr\\d*", "london", "euw2">>>>,
        <<"eu-west-3", <<"eu-west-3", "cdg\\d*", "paris", "euw3">>>>,
        <<"eu-central-1", <<"eu-central-1", "fra\\d*", "frankfurt", "euc1">>>>,
        <<"ap-southeast-1", <<"ap-southeast-1", "sin\\d*", "singapore", "apse1">>>>,
        <<"ap-northeast-1", <<"ap-northeast-1", "nrt\\d*", "tokyo", "apne1">>>> >> >>,
  <<"gcp", <<
        <<"us-central1", <<"us-central1", "uc1", "iowa", "central">>>>,
        <<"us-east1", <<"us-east1", "ue1", "south.carolina", "eastern">>>>,
        <<"us-west1", <<"us-west1", "uw1", "oregon", "western">>>>,
        <<"us-west2", <<"us-west2", "uw2", "los.angeles">>>>,
        <<"us-west3", <<"us-west3", "uw3", "salt.lake">>>>,
        <<"us-west4", <<"us-west4", "uw4", "las.vegas">>>>,
        <<"europe-west1", <<"europe-west1", "ew1", "belgium", "st.ghislain">>>>,
        <<"europe-west2", <<"europe-west2", "ew2", "london", "lhr\\d*">>>>,
        <<"europe-west3", <<"europe-west3", "ew3", "frankfurt", "fra\\d*">>>>,
        <<"europe-west4", <<"europe-west4", "ew4", "netherlands", "eemshaven", "ams\\d*">>>>,
        <<"europe-west9", <<"europe-west9", "ew9", "paris", "par\\d+s\\d+", "cdg\\d*">>>>,
        <<"asia-southeast1", <<"asia-southeast1", "as1", "singapore", "sin\\d*">>>>,
        <<"asia-northeast1", <<"asia-northeast1", "an1", "tokyo", "nrt\\d*">>>> >> >>,
  <<"azure", <<
        <<"eastus", <<"eastus", "east.us", "virginia">>>>,
        <<"eastus2", <<"eastus2", "east.us.2", "virginia2">>>>,
        <<"westus", <<"westus", "west.us", "california">>>>,
        <<"westus2", <<"westus2", "west.us.2", "washington">>>>,
        <<"northeurope", <<"northeurope", "north.europe", "ireland">>>>,
        <<"westeurope", <<"westeurope", "west.europe", "netherlands">>>>,
        <<"francecentral", <<"francecentral", "france.central", "paris">>>>,
        <<"germanywestcentral", <<"germanywestcentral", "germany.west", "frankfurt">>>>,
        <<"eastasia", <<"eastasia", "east.asia", "hong.kong">>>>,
        <<"southeastasia", <<"southeastasia", "southeast.asia", "singapore">>>> >> >>,
  <<"ovh", <<
        <<"gra7", <<"gra\\d*", "gravelines", "gra7", "\\.gra-", "gra-g\\d+", "be\\d+\\.gra-g\\d+", "gra-g\\d+-nc\\d+", "\\.gra\\.", "-gra\\.", "lil\\d*-gra\\d*", "\\.lil\\d*-gra\\d*-">>>>,
        <<"gra9", <<"gra9", "gravelines9">>>>,
        <<"rbx8", <<"rbx\\d*", "roubaix", "rbx8", "\\.rbx-", "rbx-g\\d+", "\\.rbx\\.", "-rbx\\.", "lil\\d*-rbx\\d*", "\\.lil\\d*-rbx\\d*-">>>>,
        <<"sbg5", <<"sbg\\d*", "strasbourg", "sbg5", "\\.sbg-", "sbg-g\\d+", "\\.sbg\\.", "-sbg\\.", "lil\\d*-sbg\\d*", "\\.lil\\d*-sbg\\d*-">>>>,
        <<"bhs5", <<"bhs\\d*", "beauharnois", "montreal", "bhs5", "\\.bhs-", "bhs-g\\d+", "\\.bhs\\.", "-bhs\\.", "lil\\d*-bhs\\d*", "\\.lil\\d*-bhs\\d*-">>>>,
        <<"waw1", <<"waw\\d*", "warsaw", "poland", "waw1", "\\.waw-", "waw-g\\d+", "\\.waw\\.", "-waw\\.", "lil\\d*-waw\\d*", "\\.lil\\d*-waw\\d*-">>>>,
        <<"lon1", <<"lon\\d*", "london", "lon1", "\\.lon-", "lon-g\\d+", "\\.lon\\.", "-lon\\.", "lil\\d*-lon\\d*", "\\.lil\\d*-lon\\d*-">>>>,
        <<"fra1", <<"fra\\d*", "frankfurt", "fra1", "\\.fra-", "fra-g\\d+", "\\.fra\\.", "-fra\\.", "lil\\d*-fra\\d*", "\\.lil\\d*-fra\\d*-">>>>,
        <<"sin1", <<"sin\\d*", "singapore", "sin1", "\\.sin-", "sin-g\\d+", "\\.sin\\.", "-sin\\.", "lil\\d*-sin\\d*", "\\.lil\\d*-sin\\d*-">>>>,
        <<"syd1", <<"syd\\d*", "sydney", "australia", "syd1", "\\.syd-", "syd-g\\d+", "\\.syd\\.", "-syd\\.", "lil\\d*-syd\\d*", "\\.lil\\d*-syd\\d*-">>>> >> >>,
  <<"cloudflare", <<
        <<"ams", <<"ams\\d*", "amsterdam", "\\.ams\\.", "-ams\\.", "ams\\d+\\.cloudflare">>>>,
        <<"atl", <<"atl\\d*", "atlanta", "\\.atl\\.", "-atl\\.", "atl\\d+\\.cloudflare">>>>,
        <<"bom", <<"bom\\d*", "mumbai", "\\.bom\\.", "-bom\\.", "bom\\d+\\.cloudflare">>>>,
        <<"cdg", <<"cdg\\d*", "paris", "\\.cdg\\.", "-cdg\\.", "cdg\\d+\\.cloudflare">>>>,
        <<"dfw", <<"dfw\\d*", "dallas", "\\.dfw\\.", "-dfw\\.", "dfw\\d+\\.cloudflare">>>>,
        <<"fra", <<"fra\\d*", "frankfurt", "\\.fra\\.", "-fra\\.", "fra\\d+\\.cloudflare">>>>,
        <<"iad", <<"iad\\d*", "washington", "ashburn", "\\.iad\\.", "-iad\\.", "iad\\d+\\.cloudflare">>>>,
        <<"lax", <<"lax\\d*", "los.angeles", "\\.lax\\.", "-lax\\.", "lax\\d+\\.cloudflare">>>>,
        <<"lhr", <<"lhr\\d*", "london", "\\.lhr\\.", "-lhr\\.", "lhr\\d+\\.cloudflare">>>>,
        <<"nrt", <<"nrt\\d*", "tokyo", "\\.nrt\\.", "-nrt\\.", "nrt\\d+\\.cloudflare">>>>,
        <<"ord", <<"ord\\d*", "chicago", "\\.ord\\.", "-ord\\.", "ord\\d+\\.cloudflare">>>>,
        <<"sea", <<"sea\\d*", "seattle", "\\.sea\\.", "-sea\\.", "sea\\d+\\.cloudflare">>>>,
        <<"sin", <<"sin\\d*", "singapore", "\\.sin\\.", "-sin\\.", "sin\\d+\\.cloudflare">>>>,
        <<"syd", <<"syd\\d*", "sydney", "\\.syd\\.", "-syd\\.", "syd\\d+\\.cloudflare">>>> >> >>,
  <<"akamai", <<
        <<"ams", <<"ams\\d*", "amsterdam", "\\.ams\\.", "-ams\\.", "ams\\d+\\.akamai", "\\.akam\\.net.*ams">>>>,
        <<"atl", <<"atl\\d*", "atlanta", "\\.atl\\.", "-atl\\.", "atl\\d+\\.akamai", "\\.akam\\.net.*atl">>>>,
        <<"bos", <<"bos\\d*", "boston", "\\.bos\\.", "-bos\\.", "bos\\d+\\.akamai", "\\.akam\\.net.*bos">>>>,
        <<"cdg", <<"cdg\\d*", "paris", "\\.cdg\\.", "-cdg\\.", "cdg\\d+\\.akamai", "\\.akam\\.net.*cdg">>>>,
        <<"dfw", <<"dfw\\d*", "dallas", "\\.dfw\\.", "-dfw\\.", "dfw\\d+\\.akamai", "\\.akam\\.net.*dfw">>>>,
        <<"fra", <<"fra\\d*", "frankfurt", "\\.fra\\.", "-fra\\.", "fra\\d+\\.akamai", "\\.akam\\.net.*fra">>>>,
        <<"lax", <<"lax\\d*", "los.angeles", "\\.lax\\.", "-lax\\.", "lax\\d+\\.akamai", "\\.akam\\.net.*lax">>>>,
        <<"lhr", <<"lhr\\d*", "london", "\\.lhr\\.", "-lhr\\.", "lhr\\d+\\.akamai", "\\.akam\\.net.*lhr">>>>,
        <<"mia", <<"mia\\d*", "miami", "\\.mia\\.", "-mia\\.", "mia\\d+\\.akamai", "\\.akam\\.net.*mia">>>>,
        <<"nrt", <<"nrt\\d*", "tokyo", "\\.nrt\\.", "-nrt\\.", "nrt\\d+\\.akamai", "\\.akam\\.net.*nrt">>>>,
        <<"ord", <<"ord\\d*", "chicago", "\\.ord\\.", "-ord\\.", "ord\\d+\\.akamai", "\\.akam\\.net.*ord">>>>,
        <<"sea", <<"sea\\d*", "seattle", "\\.sea\\.", "-sea\\.", "sea\\d+\\.akamai", "\\.akam\\.net.*sea">>>>,
        <<"sin", <<"sin\\d*", "singapore", "\\.sin\\.", "-sin\\.", "sin\\d+\\.akamai", "\\.akam\\.net.*sin">>>>,
        <<"syd", <<"syd\\d*", "sydney", "\\.syd\\.", "-syd\\.", "syd\\d+\\.akamai", "\\.akam\\.net.*syd">>>> >> >>,
  <<"hetzner", <<
        <<"fsn", <<"fsn\\d*", "falkenstein">>>>,
        <<"nbg", <<"nbg\\d*", "nuremberg">>>>,
        <<"hel", <<"hel\\d*", "helsinki">>>>,
        <<"ash", <<"ash\\d*", "ashburn">>>>,
        <<"hil", <<"hil\\d*", "hillsboro">>>> >> >>,
  <<"digitalocean", <<
        <<"nyc", <<"nyc\\d*", "new-york">>>>,
        <<"sfo", <<"sfo\\d*", "san-francisco">>>>,
        <<"ams", <<"ams\\d*", "amsterdam">>>>,
        <<"sgp", <<"sgp\\d*", "singapore">>>>,
        <<"lon", <<"lon\\d*", "london">>>>,
        <<"fra", <<"fra\\d*", "frankfurt">>>>,
        <<"tor", <<"tor\\d*", "toronto">>>>,
        <<"blr", <<"blr\\d*", "bangalore">>>> >> >>,
  <<"github", <<
        <<"fra", <<"fra", "frankfurt", "de-cix\\.fra", "\\.fra\\.github", "-fra\\.github">>>>,
        <<"sea", <<"sea", "seattle">>>>,
        <<"iad", <<"iad", "ashburn", "washington">>>>,
        <<"sjc", <<"sjc", "san-jose">>>>,
        <<"lhr", <<"lhr", "london">>>>,
        <<"sin", <<"sin", "singapore">>>> >> >>
  >>

country_to_region_mapping ==
  <<
  <<"aws", <<<<"US", "us-east-1">>, <<"IE", "eu-west-1">>, <<"GB", "eu-west-2">>, <<"FR", "eu-west-3">>, <<"DE", "eu-central-1">>, <<"SG", "ap-southeast-1">>, <<"JP", "ap-northeast-1">>, <<"CA", "ca-central-1">>, <<"AU", "ap-southeast-2">>, <<"BR", "sa-east-1">>, <<"KR", "ap-northeast-2">>, <<"IN", "ap-south-1">>>>>>,
  <<"gcp", <<<<"US", "us-central1">>, <<"BE", "europe-west1">>, <<"GB", "europe-west2">>, <<"DE", "europe-west3">>, <<"NL", "europe-west4">>, <<"SG", "asia-southeast1">>, <<"JP", "asia-northeast1">>, <<"CA", "northamerica-northeast1">>, <<"AU", "australia-southeast1">>, <<"BR", "southamerica-east1">>, <<"KR", "asia-northeast3">>, <<"IN", "asia-south1">>, <<"FR", "europe-west9">>>>>>,
  <<"azure", <<<<"US", "eastus">>, <<"IE", "northeurope">>, <<"NL", "westeurope">>, <<"FR", "francecentral">>, <<"DE", "germanywestcentral">>, <<"HK", "eastasia">>, <<"SG", "southeastasia">>, <<"GB", "uksouth">>, <<"CA", "canadacentral">>, <<"AU", "australiaeast">>, <<"BR", "brazilsouth">>, <<"KR", "koreacentral">>, <<"IN", "centralindia">>, <<"JP", "japaneast">>>>>>,
  <<"ovh", <<<<"FR", "gra7">>, <<"DE", "fra1">>, <<"GB", "lon1">>, <<"CA", "bhs5">>, <<"PL", "waw1">>, <<"SG", "sin1">>, <<"AU", "syd1">>, <<"US", "us-east-va-1">>>>>>,
  <<"digitalocean", <<<<"US", "nyc1">>, <<"NL", "ams3">>, <<"GB", "lon1">>, <<"DE", "fra1">>, <<"SG", "sgp1">>, <<"CA", "tor1">>, <<"IN", "blr1">>>>>>,
  <<"hetzner", <<<<"DE", "fsn1">>, <<"FI", "hel1">>, <<"US", "ash">>>>>>,
  <<"cloudflare", <<<<"US", "iad">>, <<"GB", "lhr">>, <<"DE", "fra">>, <<"SG", "sin">>, <<"FR", "cdg">>, <<"NL", "ams">>, <<"JP", "nrt">>>>>>
  >>

provider_indicators ==
  <<
  <<"aws", <<"amazonaws.com", "aws.com", "ec2", "cloudfront", "amazon.com">>>>,
  <<"gcp", <<"googleapis.com", "google.com", "gcp", "googlers.com", "1e100.net", "googleusercontent.com">>>>,
  <<"azure", <<"azure.com", "microsoft.com", "azureedge.net", "msft.net">>>>,
  <<"ovh", <<"ovh.net", "ovh.com", "kimsufi.com", "soyoustart.com", "ovh.fr", ".fr.eu", "gra-g", "rbx-", "sbg-", "bhs-", "be102.gra-g", "be103.gra-g", "be104.gra-g", "gra-g1-nc", "gra-g2-nc", "gra-g3-nc", "rbx-g1-nc", "be103.lil", "be102.lil", "be104.lil", "lil1-rbx", "lil1-gra", "lil1-sbg", "lil1-bhs", "-sbb1-nc", "-sbb2-nc">>>>,
  <<"cloudflare", <<"cloudflare.com", "cloudflare.net", "cf-dns.com", "2606:4700", "172.64.", "172.65.", "172.66.", "172.67.", "104.16.", "104.17.", "104.18.", "104.19.", "104.20.", "104.21.", "104.22.", "104.23.", "104.24.", "104.25.", "104.26.", "104.27.", "104.28.", "104.29.", "104.30.", "104.31.">>>>,
  <<"akamai", <<"akamai.com", "akamai.net", "akamaitechnologies.com", "akam.net", "akamaiedge.net", "akamai-staging.net", "deploy.static.akamaitechnologies.com", "deploy.akamaitechnologies.com", "g2a02-26f0", "a248.e.akamai.net", "e.akamai.net">>>>,
  <<"hetzner", <<"hetzner.de", "hetzner.com", "your-server.de">>>>,
  <<"digitalocean", <<"digitalocean.com", "do.co", "nyc.co">>>>,
  <<"github", <<"github.com", "github.io", "githubassets.com", "githubusercontent.com">>>>
  >>

\* dict lookups on a sequence of <<key, value>> pairs
HasKey(d, k) == \E i \in 1..Len(d) : d[i][1] = k
Get(d, k) == d[CHOOSE i \in 1..Len(d) : d[i][1] = k][2]

\* the least index of a set of indexes, 0 when the set is empty: where a
\* for loop with a break or a return stops
FirstIndex(hits) ==
  IF hits = {} THEN 0 ELSE CHOOSE i \in hits : \A j \in hits : i <= j

(***************************************************************************)
(* RegionDetector: pure functions                                          *)
(***************************************************************************)
\* _is_ip_address: "a and b or c" groups as (a and b) or c
IsIPv4Text(addr) ==
  LET parts == Split(addr, ".")
  IN /\ Len(parts) = 4
     /\ \A i \in 1..4 :
          /\ Len(parts[i]) \in 1..3
          /\ \A j \in 1..Len(parts[i]) : IsDigit(CharAt(parts[i], j))

IsHexColonText(addr) ==
  /\ addr /= ""
  /\ \A i \in 1..Len(addr) :
       CharAt(addr, i) = ":" \/ Find(HexLower, LowerChar(CharAt(addr, i))) /= 0

_is_ip_address(addr) ==
  \/ IsIPv4Text(addr)
  \/ (IsHexColonText(addr) /\ Contains(addr, "::"))
  \/ CountChar(addr, ":") >= 2

\* _identify_provider: first provider, in declared order, one of whose
\* indicator tokens is a substring of the hostname
ProviderMatches(hostname, i) ==
  \E j \in 1..Len(provider_indicators[i][2]) :
     Contains(hostname, provider_indicators[i][2][j])

RECURSIVE FirstProvider(_, _)
FirstProvider(hostname, i) ==
  IF i > Len(provider_indicators) THEN None
  ELSE IF ProviderMatches(hostname, i) THEN provider_indicators[i][1]
  ELSE FirstProvider(hostname, i + 1)

_identify_provider(hostname) == FirstProvider(hostname, 1)

\* _identify_region: first region of the provider, in declared order, one of
\* whose patterns is found in the hostname
RegionMatches(hostname, regions, i) ==
  \E j \in 1..Len(regions[i][2]) : re_search(regions[i][2][j], hostname)

RECURSIVE FirstRegion(_, _, _)
FirstRegion(hostname, regions, i) ==
  IF i > Len(regions) THEN None
  ELSE IF RegionMatches(hostname, regions, i) THEN regions[i][1]
  ELSE FirstRegion(hostname, regions, i + 1)

_identify_region(hostname, provider) ==
  IF ~HasKey(region_patterns, provider) THEN None
  ELSE FirstRegion(hostname, Get(region_patterns, provider), 1)

CloudflareV4Prefixes ==
  {"104.16.", "104.17.", "104.18.", "104.19.", "104.20.", "104.21.",
   "104.22.", "104.23.", "104.24.", "104.25.", "104.26.", "104.27.",
   "104.28.", "104.29.", "104.30.", "104.31.",
   "172.64.", "172.65.", "172.66.", "172.67."}

AkamaiRegionCodes ==
  {"ams", "fra", "lhr", "cdg", "sin", "nrt", "lax", "ord", "sea", "dfw",
   "atl", "bos", "mia", "syd"}

\* re.search(r'\.([a-z]{3})\d*\.', s): does the pattern match at position i
RECURSIVE SkipDigits(_, _)
SkipDigits(s, i) ==
  IF i <= Len(s) /\ IsDigit(CharAt(s, i)) THEN SkipDigits(s, i + 1) ELSE i

AkamaiCodeAt(s, i) ==
  /\ i + 4 <= Len(s)
  /\ CharAt(s, i) = "."
  /\ \A j \in 1..3 : IsLowerLetter(CharAt(s, i + j))
  /\ LET e == SkipDigits(s, i + 4) IN e <= Len(s) /\ CharAt(s, e) = "."

\* what one element of the list makes _analyze_ip_ranges return;
\* <<>> when the loop goes on to the next element
IpRangeVerdict(h) ==
  IF StartsWith(h, "2606:4700")
  THEN IF Contains(h, "2606:4700:10::")
       THEN LET last_int == int16(LastField(h, ":"))
            IN IF last_int >= 5120 /\ last_int <= 5375 THEN <<"cloudflare", "cdg">>
               ELSE IF last_int >= 5376 /\ last_int <= 5631 THEN <<"cloudflare", "ams">>
               ELSE IF last_int >= 5632 /\ last_int <= 5887 THEN <<"cloudflare", "lhr">>
               ELSE <<"cloudflare", "cdg">>
       ELSE IF Contains(h, "2606:4700::68")
       THEN LET last_int == int16(LastField(h, ":"))
            IN IF last_int >= 34048 /\ last_int <= 34303 THEN <<"cloudflare", "iad">>
               ELSE IF last_int >= 34304 /\ last_int <= 34559 THEN <<"cloudflare", "lax">>
               ELSE <<"cloudflare", "iad">>
       ELSE <<"cloudflare", None>>
  ELSE IF \E prefix \in CloudflareV4Prefixes : StartsWith(h, prefix)
  THEN <<"cloudflare", None>>
  ELSE IF Contains(h, "akamaitechnologies.com") \/ Contains(h, "akamaiedge.net")
  THEN LET i == FirstIndex({k \in 1..Len(h) : AkamaiCodeAt(h, k)})
           region_code == IF i = 0 THEN None ELSE SubSeq(h, i + 1, i + 3)
       IN IF region_code \in AkamaiRegionCodes
          THEN <<"akamai", region_code>>
          ELSE <<"akamai", None>>
  ELSE IF StartsWith(h, "2a02:26f0:")
  THEN IF Contains(h, "2a02:26f0:2b80:")
       THEN <<"akamai", "ams">>
       ELSE <<"akamai", None>>
  ELSE <<>>

\* _analyze_ip_ranges: the verdict of the first element that has one
RECURSIVE _analyze_ip_ranges(_)
_analyze_ip_ranges(hostnames) ==
  IF hostnames = <<>> THEN <<None, None>>
  ELSE LET verdict == IpRangeVerdict(Head(hostnames))
       IN IF verdict /= <<>> THEN verdict
          ELSE _analyze_ip_ranges(Tail(hostnames))

\* the (provider, region) a single hop gives in the loop of
\* detect_provider_and_region
HopVerdict(hostname) ==
  LET hostname_lower == lower(hostname)
      provider == _identify_provider(hostname_lower)
  IN IF Truthy(provider)
     THEN <<provider, _identify_region(hostname_lower, provider)>>
     ELSE <<None, None>>

\* the loop over the hops: the first hop that gives provider and region
RECURSIVE HopScan(_)
HopScan(hostnames) ==
  IF hostnames = <<>> THEN <<None, None>>
  ELSE LET verdict == HopVerdict(Head(hostnames))
       IN IF Truthy(verdict[1]) /\ Truthy(verdict[2]) THEN verdict
          ELSE HopScan(Tail(hostnames))

\* variant: the scan stops at the first hop that names a provider
detect_provider_and_region_stopAtProvider(hostnames) ==
  LET i == FirstIndex({k \in 1..Len(hostnames) :
                         Truthy(HopVerdict(hostnames[k])[1])})
      by_hop == IF i = 0 THEN <<None, None>> ELSE HopVerdict(hostnames[i])
      by_ip == _analyze_ip_ranges(hostnames)
  IN IF Truthy(by_hop[1]) /\ Truthy(by_hop[2]) THEN by_hop
     ELSE IF Truthy(by_ip[1]) THEN by_ip
     ELSE <<None, None>>

\* variant: no IP-range analysis after the scan
detect_provider_and_region_scanOnly(hostnames) == HopScan(hostnames)

\* detect_provider_and_region: first hop with provider and region, else the
\* IP-range analysis of the same list when it names a provider
detect_provider_and_region(hostnames) ==
  LET by_hop == HopScan(hostnames)
      by_ip == _analyze_ip_ranges(hostnames)
  IN IF Truthy(by_hop[1]) THEN by_hop
     ELSE IF Truthy(by_ip[1]) THEN by_ip
     ELSE <<None, None>>

(***************************************************************************)
(* E1: detect_via_ip_geolocation                                           *)
(***************************************************************************)
\* The names bound in the namespace of region_detector.py are those of its
\* import block: re, subprocess, logging, socket, requests and the typing
\* names.  IPWhois is not among them.
IPWhois_bound == FALSE

\* the "Patterns courants" chain that derives a country from asn_org
OrgCountryHints ==
  << <<"fr", "FR">>, <<"us", "US">>, <<"de", "DE">>, <<"gb", "GB">>,
     <<"ca", "CA">>, <<"sg", "SG">>, <<"jp", "JP">>, <<"au", "AU">>,
     <<"nl", "NL">>, <<"be", "BE">>, <<"ie", "IE">> >>

OrgHintMatches(asn_org, i) ==
  \/ Contains(asn_org, ", " \o OrgCountryHints[i][1])
  \/ Contains(asn_org, " " \o OrgCountryHints[i][1])

GeoCountry(results, asn_org) ==
  IF ~Truthy(results.country) /\ asn_org /= ""
  THEN LET i == FirstIndex({k \in 1..Len(OrgCountryHints) :
                              OrgHintMatches(asn_org, k)})
       IN IF i = 0 THEN results.country ELSE OrgCountryHints[i][2]
  ELSE results.country

\* region = country_to_region_mapping[provider][country] when defined
CountryRegion(provider, country) ==
  IF HasKey(Get(country_to_region_mapping, provider), country)
  THEN Get(Get(country_to_region_mapping, provider), country)
  ELSE None

\* the OVH refinement for country FR
OvhFranceRegion(ip) ==
  LET ip_parts == Split(ip, ".")
  IN IF Len(ip_parts) = 4
     THEN LET first_octet == int10(ip_parts[1])
              second_octet == int10(ip_parts[2])
          IN IF first_octet = -1 \/ second_octet = -1 THEN "gra7"
             ELSE IF first_octet = 54 /\ second_octet = 39 THEN "gra7"
             ELSE IF first_octet = 151 /\ second_octet = 80 THEN "rbx8"
             ELSE IF first_octet = 51 /\ second_octet = 38 THEN "sbg5"
             ELSE "gra7"
     ELSE None

AkamaiAsns == {"16625", "20940", "21342", "16702", "18717", "18680", "20189"}

\* str(asn)
PyStr(x) == IF x = None THEN "None" ELSE x

\* the provider/region chain of detect_via_ip_geolocation, from the
\* dictionary that lookup_rdap or lookup_whois returned
GeoVerdict(ip, results) ==
  IF results.asn_description = None THEN <<None, None>>
  ELSE
  LET asn == PyStr(results.asn)
      asn_org == lower(results.asn_description)
      country == GeoCountry(results, asn_org)
  IN IF Contains(asn, "16509") \/ Contains(asn_org, "amazon") \/ Contains(asn_org, "aws")
     THEN <<"aws", CountryRegion("aws", country)>>
     ELSE IF Contains(asn, "15169") \/ Contains(asn_org, "google")
     THEN <<"gcp", CountryRegion("gcp", country)>>
     ELSE IF Contains(asn, "8075") \/ Contains(asn_org, "microsoft")
     THEN <<"azure", CountryRegion("azure", country)>>
     ELSE IF Contains(asn, "16276") \/ Contains(asn_org, "ovh")
     THEN <<"ovh",
            CASE country = "FR" -> OvhFranceRegion(ip)
              [] country = "CA" -> "bhs5"
              [] country = "GB" -> "lon1"
              [] country = "DE" -> "fra1"
              [] country = "PL" -> "waw1"
              [] country = "SG" -> "sin1"
              [] country = "AU" -> "syd1"
              [] OTHER -> None>>
     ELSE IF Contains(asn, "13335") \/ Contains(asn_org, "cloudflare")
     THEN <<"cloudflare", None>>
     ELSE IF (\E a \in AkamaiAsns : Contains(asn, a)) \/ Contains(asn_org, "akamai")
     THEN <<"akamai", None>>
     ELSE IF Contains(asn, "24940") \/ Contains(asn_org, "hetzner")
     THEN <<"hetzner",
            CASE country = "DE" -> "fsn"
              [] country = "FI" -> "hel"
              [] country = "US" -> "ash"
              [] OTHER -> None>>
     ELSE IF Contains(asn, "14061") \/ Contains(asn_org, "digitalocean")
     THEN <<"digitalocean", CountryRegion("digitalocean", country)>>
     ELSE <<None, None>>

\* detect_via_ip_geolocation(target) for a target that is an IP address;
\* registry is what the RDAP/WHOIS service answers for that address.
\* Evaluating the unbound name IPWhois raises NameError inside the outer
\* try, whose handler returns (None, None).
detect_via_ip_geolocation(target, registry) ==
  IF ~IPWhois_bound THEN <<None, None>>
  ELSE IF registry.rdap_raises /\ registry.whois_raises THEN <<None, None>>
  ELSE GeoVerdict(target, registry.results)

(***************************************************************************)
(* Traceroute driver: parsers                                              *)
(***************************************************************************)
IsSpace(c) == c \in {" ", "\t"}

RECURSIVE SkipSpaces(_, _)
SkipSpaces(s, i) ==
  IF i <= Len(s) /\ IsSpace(CharAt(s, i)) THEN SkipSpaces(s, i + 1) ELSE i

IsHostChar(c) ==
  IsLowerLetter(c) \/ IsUpperLetter(c) \/ IsDigit(c) \/ c = "-" \/ c = "."

\* end (exclusive) of the run from i of characters of [a-zA-Z0-9\-\.]
RECURSIVE SkipHostChars(_, _)
SkipHostChars(s, i) ==
  IF i <= Len(s) /\ IsHostChar(CharAt(s, i)) THEN SkipHostChars(s, i + 1) ELSE i

\* ... of characters of [^\s]
RECURSIVE SkipNotSpace(_, _)
SkipNotSpace(s, i) ==
  IF i <= Len(s) /\ ~IsSpace(CharAt(s, i)) THEN SkipNotSpace(s, i + 1) ELSE i

\* ... of characters of [^\s\(]
RECURSIVE SkipNotSpaceNorParen(_, _)
SkipNotSpaceNorParen(s, i) ==
  IF i <= Len(s) /\ ~IsSpace(CharAt(s, i)) /\ CharAt(s, i) /= "("
  THEN SkipNotSpaceNorParen(s, i + 1) ELSE i

\* line.strip()
RECURSIVE RStrip(_)
RStrip(s) ==
  IF s /= "" /\ IsSpace(CharAt(s, Len(s))) THEN RStrip(SubSeq(s, 1, Len(s) - 1)) ELSE s

Strip(s) == LET t == RStrip(s) IN SubSeq(t, SkipSpaces(t, 1), Len(t))

\* group(1) of r'\s*\d+\.\|\-\-\s+([^\s\(]+)(?:\s+\([^)]+\))?' matched at
\* the start of the line; None without a match
MtrClassicHost(line) ==
  LET a == SkipSpaces(line, 1)
      e == SkipDigits(line, a)
      f == SkipSpaces(line, e + 4)
      g == SkipNotSpaceNorParen(line, f)
  IN IF e > a /\ SubSeq(line, e, e + 3) = ".|--" /\ f > e + 4 /\ g > f
     THEN SubSeq(line, f, g - 1)
     ELSE None

\* group(1) of r'\s*\d+\.\s+([^\s]+)' matched at the start of the line
MtrModernHost(line) ==
  LET a == SkipSpaces(line, 1)
      e == SkipDigits(line, a)
      f == SkipSpaces(line, e + 1)
      g == SkipNotSpace(line, f)
  IN IF e > a /\ CharAt(line, e) = "." /\ f > e + 1 /\ g > f
     THEN SubSeq(line, f, g - 1)
     ELSE None

MtrIgnored == {"???", "*", "0.0.0.0", "(waiting", "waiting", "reply)"}

MtrPrivatePrefixes ==
  {"192.168.", "10.", "172.16.", "172.17.", "172.18.", "172.19.", "172.20.",
   "172.21.", "172.22.", "172.23.", "172.24.", "172.25.", "172.26.",
   "172.27.", "172.28.", "172.29.", "172.30.", "172.31.", "bbox.lan"}

\* socket.gethostbyaddr(ip)[0] under the PTR table ptr (pairs <<ip, name>>);
\* an address without PTR record raises socket.herror
HasPtr(ptr, ip) == HasKey(ptr, ip)

\* what one line of the mtr report contributes to hostnames: <<>> or <<h>>
MtrLineHosts(raw, ptr) ==
  LET line == Strip(raw)
      classic == MtrClassicHost(line)
      hostname_or_ip == IF classic /= None THEN classic ELSE MtrModernHost(line)
  IN IF line = "" \/ Contains(line, "HOST:") \/ Contains(line, "Start:")
          \/ Contains(line, "Keys:")
     THEN <<>>
     ELSE IF ~Truthy(hostname_or_ip) THEN <<>>
     ELSE IF hostname_or_ip \in MtrIgnored THEN <<>>
     ELSE IF \E p \in MtrPrivatePrefixes : StartsWith(hostname_or_ip, p) THEN <<>>
     ELSE IF _is_ip_address(hostname_or_ip)
     THEN IF HasPtr(ptr, hostname_or_ip)
          THEN LET reversed_name == Get(ptr, hostname_or_ip)
               IN IF reversed_name /= "" /\ Contains(reversed_name, ".")
                     /\ Len(reversed_name) > 5
                  THEN <<lower(reversed_name)>>
                  ELSE <<>>
          ELSE <<hostname_or_ip>>
     ELSE IF Contains(hostname_or_ip, ".") /\ Len(hostname_or_ip) > 3
     THEN <<lower(hostname_or_ip)>>
     ELSE <<>>

RECURSIVE MtrHosts(_, _)
MtrHosts(lines, ptr) ==
  IF lines = <<>> THEN <<>>
  ELSE MtrLineHosts(Head(lines), ptr) \o MtrHosts(Tail(lines), ptr)

\* order-preserving deduplication
RECURSIVE Dedup(_, _)
Dedup(hs, seen) ==
  IF hs = <<>> THEN <<>>
  ELSE IF Head(hs) \in seen THEN Dedup(Tail(hs), seen)
  ELSE <<Head(hs)>> \o Dedup(Tail(hs), seen \cup {Head(hs)})

\* _parse_mtr_output_enhanced; output is the list of lines of stdout
_parse_mtr_output_enhanced(output, ptr) ==
  Dedup(MtrHosts(output, ptr), {})

\* r'\s+\d+\s+([a-zA-Z0-9\-\.]+)\s+\(' matched from position i: the end
\* (exclusive) of the match, 0 without a match
UnixHopAt(line, i) ==
  LET a == SkipSpaces(line, i)
      b == SkipDigits(line, a)
      c == SkipSpaces(line, b)
      d == SkipHostChars(line, c)
      e == SkipSpaces(line, d)
  IN a > i /\ b > a /\ c > b /\ d > c /\ e > d /\ CharAt(line, e) = "("

UnixHopName(line, i) ==
  LET c == SkipSpaces(line, SkipDigits(line, SkipSpaces(line, i)))
  IN SubSeq(line, c, SkipHostChars(line, c) - 1)

UnixLineHosts(line) ==
  LET i == FirstIndex({k \in 1..Len(line) : UnixHopAt(line, k)})
      hostname == IF i = 0 THEN None ELSE UnixHopName(line, i)
  IN IF Strip(line) = "" \/ i = 0 THEN <<>>
     ELSE IF hostname /= "*" /\ Contains(hostname, ".") THEN <<lower(hostname)>>
     ELSE <<>>

\* _parse_traceroute_unix
RECURSIVE _parse_traceroute_unix(_)
_parse_traceroute_unix(output) ==
  IF output = <<>> THEN <<>>
  ELSE UnixLineHosts(Head(output)) \o _parse_traceroute_unix(Tail(output))

\* r'\s+([a-zA-Z0-9\-\.]+)\s+\[' matched from position i
WindowsHopAt(line, i) ==
  LET a == SkipSpaces(line, i)
      b == SkipHostChars(line, a)
      c == SkipSpaces(line, b)
  IN a > i /\ b > a /\ c > b /\ CharAt(line, c) = "["

WindowsHopName(line, i) ==
  LET a == SkipSpaces(line, i)
  IN SubSeq(line, a, SkipHostChars(line, a) - 1)

WindowsLineHosts(line) ==
  LET i == FirstIndex({k \in 1..Len(line) : WindowsHopAt(line, k)})
      hostname == IF i = 0 THEN None ELSE WindowsHopName(line, i)
      numbered == SkipDigits(line, SkipSpaces(line, 1)) > SkipSpaces(line, 1)
  IN IF Strip(line) = "" \/ ~numbered \/ i = 0 THEN <<>>
     ELSE IF hostname /= "*" /\ Contains(hostname, ".") THEN <<lower(hostname)>>
     ELSE <<>>

\* _parse_traceroute_windows
RECURSIVE _parse_traceroute_windows(_)
_parse_traceroute_windows(output) ==
  IF output = <<>> THEN <<>>
  ELSE WindowsLineHosts(Head(output)) \o _parse_traceroute_windows(Tail(output))

(***************************************************************************)
(* douro/core/analyzer.py: probes                                          *)
(***************************************************************************)
\* an absent datetime (Optional[datetime] = None); dates are Unix timestamps
NoDate == 0

UpperChar(c) ==
  IF IsLowerLetter(c) THEN CharAt(UpperLetters, Find(LowerLetters, c)) ELSE c

\* s.upper()
RECURSIVE upper(_)
upper(s) == IF s = "" THEN "" ELSE UpperChar(Head(s)) \o upper(Tail(s))

\* the stage names, in the order update_metrics lists them
Stages == <<"dns", "whois_domain", "whois_ip", "https", "region_detection">>

StageSet == {Stages[i] : i \in 1..Len(Stages)}

\* DomainInfo(domain=domain)
NewDomainInfo(domain) ==
  [domain |-> domain,
   dns_resolve_duration |-> 0,
   ip_addresses |-> <<>>,
   ns_records |-> <<>>,
   registrar |-> None,
   expiration_date |-> NoDate,
   asn |-> None,
   asn_org |-> None,
   country |-> None,
   hosting_provider |-> None,
   hosting_region |-> None,
   http_status |-> 0,
   server_header |-> None,
   tls_expiration |-> NoDate,
   cdn_detected |-> FALSE,
   error |-> <<>>]

\* result.error[stage] = str(e)
WithError(info, stage, message) ==
  [info EXCEPT !.error = (stage :> message) @@ info.error]

\* the records of one query, empty when it raised a DNSException
QueryRecords(q) == IF q.dns_exception THEN <<>> ELSE q.records

\* str(record).rstrip('.')
RECURSIVE RStripDot(_)
RStripDot(s) ==
  IF s /= "" /\ CharAt(s, Len(s)) = "." THEN RStripDot(SubSeq(s, 1, Len(s) - 1)) ELSE s

RStripDots(records) == [i \in 1..Len(records) |-> RStripDot(records[i])]

\* resolve_dns: A, then AAAA when A gave nothing, and NS; o holds what the
\* resolver does for each query and the time the three queries take
resolve_dns(o) ==
  LET a_records == QueryRecords(o.a)
      ip_addresses == IF a_records = <<>> THEN QueryRecords(o.aaaa) ELSE a_records
  IN <<o.duration, ip_addresses, RStripDots(QueryRecords(o.ns))>>

\* get_whois_info: w is what whois.whois does for the domain
get_whois_info(w) ==
  IF w.raises THEN <<None, NoDate>>
  ELSE IF w.expiration_is_list
  THEN <<w.registrar,
         IF w.expiration_dates /= <<>> THEN w.expiration_dates[1] ELSE NoDate>>
  ELSE <<w.registrar, w.expiration_date>>

org_country_mapping ==
  << <<"us", <<"united states", "usa", ", us">>>>,
     <<"gb", <<"united kingdom", "uk", ", gb">>>>,
     <<"de", <<"germany", "deutschland", ", de">>>>,
     <<"fr", <<"france", ", fr">>>>,
     <<"nl", <<"netherlands", "holland", ", nl">>>>,
     <<"ca", <<"canada", ", ca">>>>, <<"au", <<"australia", ", au">>>>,
     <<"jp", <<"japan", ", jp">>>>, <<"cn", <<"china", ", cn">>>>,
     <<"in", <<"india", ", in">>>>, <<"br", <<"brazil", ", br">>>>,
     <<"ru", <<"russia", ", ru">>>>, <<"kr", <<"korea", ", kr">>>>,
     <<"sg", <<"singapore", ", sg">>>>, <<"it", <<"italy", ", it">>>>,
     <<"es", <<"spain", ", es">>>>, <<"ch", <<"switzerland", ", ch">>>>,
     <<"se", <<"sweden", ", se">>>>, <<"no", <<"norway", ", no">>>>,
     <<"dk", <<"denmark", ", dk">>>>, <<"fi", <<"finland", ", fi">>>>,
     <<"ie", <<"ireland", ", ie">>>>, <<"at", <<"austria", ", at">>>>,
     <<"be", <<"belgium", ", be">>>>, <<"pt", <<"portugal", ", pt">>>>,
     <<"gr", <<"greece", ", gr">>>>, <<"cz", <<"czech", ", cz">>>>,
     <<"pl", <<"poland", ", pl">>>>, <<"hu", <<"hungary", ", hu">>>>,
     <<"ro", <<"romania", ", ro">>>>, <<"bg", <<"bulgaria", ", bg">>>>,
     <<"hr", <<"croatia", ", hr">>>>, <<"si", <<"slovenia", ", si">>>>,
     <<"sk", <<"slovakia", ", sk">>>>, <<"lt", <<"lithuania", ", lt">>>>,
     <<"lv", <<"latvia", ", lv">>>>, <<"ee", <<"estonia", ", ee">>>> >>

\* step 4 of the country lookup: deduction from the organisation
OrgCountry(asn_org) ==
  LET org_lower == lower(asn_org)
      i == FirstIndex({k \in 1..Len(org_country_mapping) :
             \E j \in 1..Len(org_country_mapping[k][2]) :
                Contains(org_lower, org_country_mapping[k][2][j])})
  IN IF i = 0 THEN None ELSE upper(org_country_mapping[i][1])

\* get_ip_whois: rdap is what the RDAP/WHOIS service answers for the
\* address.  contact_country and parent_country stand for the two-letter
\* code the scans of results['objects'] extract (None when they find none).
get_ip_whois(rdap) ==
  IF rdap.rdap_raises /\ rdap.whois_raises THEN <<None, None, None>>
  ELSE LET results == rdap.results
           c1 == results.network_country
           c2 == IF ~Truthy(c1) THEN results.contact_country ELSE c1
           c3 == IF ~Truthy(c2) THEN results.parent_country ELSE c2
           c4 == IF ~Truthy(c3) /\ Truthy(results.asn_description)
                 THEN OrgCountry(results.asn_description)
                 ELSE c3
       IN <<results.asn, results.asn_description, c4>>

cdn_keywords ==
  <<"cloudflare", "akamai", "fastly", "cdn", "amazon", "aws", "microsoft",
    "azure", "google", "gcp", "limelight", "edgecast", "stackpath", "keycdn",
    "cloudfront">>

cdn_asns == {"13335", "16625", "54113", "16509", "8075", "15169"}

\* variant: every IP with a known owner counts as a CDN
is_cdn_ip_anyOrg(asn, org) == Truthy(asn) /\ Truthy(org)

\* is_cdn_ip
is_cdn_ip(asn, org) ==
  IF ~Truthy(asn) \/ ~Truthy(org) THEN FALSE
  ELSE \/ \E i \in 1..Len(cdn_keywords) : Contains(lower(org), cdn_keywords[i])
       \/ asn \in cdn_asns

\* check_https: h is what the GET and the TLS connection do
check_https(h) ==
  IF h.get_raises \/ h.tls_raises THEN <<0, None, NoDate>>
  ELSE <<h.status_code, h.server, h.not_after>>

(***************************************************************************)
(* douro/core/metrics.py: the registry                                     *)
(***************************************************************************)
\* x or 'unknown'
OrUnknown(x) == IF Truthy(x) THEN x ELSE "unknown"

\* str(b).lower()
BoolLabel(b) == IF b THEN "true" ELSE "false"

info_labels(info) ==
  [registrar |-> OrUnknown(info.registrar),
   asn |-> OrUnknown(info.asn),
   asn_org |-> OrUnknown(info.asn_org),
   country |-> OrUnknown(info.country),
   hosting_provider |-> OrUnknown(info.hosting_provider),
   hosting_region |-> OrUnknown(info.hosting_region),
   cdn |-> BoolLabel(info.cdn_detected)]

Write(metric, labels, value) == [metric |-> metric, labels |-> labels, value |-> value]

\* variant: one failed stage marks every stage of the domain
ScrapeErrorWrites_anyError(info) ==
  [i \in 1..Len(Stages) |->
     Write("douro_scrape_error", <<info.domain, Stages[i]>>,
           IF DOMAIN info.error /= {} THEN 1 ELSE 0)]

ScrapeErrorWrites(info) ==
  [i \in 1..Len(Stages) |->
     Write("douro_scrape_error", <<info.domain, Stages[i]>>,
           IF Stages[i] \in DOMAIN info.error THEN 1 ELSE 0)]

\* the body of the loop of update_metrics: the samples it sets for one
\* DomainInfo, in program order
MetricWrites(info) ==
  <<Write("douro_domain_info", <<info.domain>>, info_labels(info)),
    Write("douro_http_status_code", <<info.domain>>, info.http_status),
    Write("douro_dns_resolve_duration_seconds", <<info.domain>>,
          info.dns_resolve_duration)>>
  \o (IF info.expiration_date /= NoDate
      THEN <<Write("douro_domain_expiration_timestamp", <<info.domain>>,
                   info.expiration_date)>>
      ELSE <<>>)
  \o (IF info.tls_expiration /= NoDate
      THEN <<Write("douro_tls_cert_expiration_timestamp", <<info.domain>>,
                   info.tls_expiration)>>
      ELSE <<>>)
  \o ScrapeErrorWrites(info)

\* metric.labels(...).set(value) / .info(value)
SetSample(reg, w) == (<<w.metric, w.labels>> :> w.value) @@ reg

RECURSIVE ApplyWrites(_, _)
ApplyWrites(reg, ws) ==
  IF ws = <<>> THEN reg ELSE ApplyWrites(SetSample(reg, Head(ws)), Tail(ws))

RECURSIVE AllWrites(_)
AllWrites(domain_infos) ==
  IF domain_infos = <<>> THEN <<>>
  ELSE MetricWrites(Head(domain_infos)) \o AllWrites(Tail(domain_infos))

\* every sample update_metrics sets, in program order; elapsed is the time
\* the loop took
UpdateWrites(domain_infos, elapsed) ==
  AllWrites(domain_infos)
  \o <<Write("douro_scrape_duration_seconds", <<>>, elapsed)>>

\* update_metrics, start to end
update_metrics(reg, domain_infos, elapsed) ==
  ApplyWrites(reg, UpdateWrites(domain_infos, elapsed))

Sample(reg, metric, labels) == reg[<<metric, labels>>]

(***************************************************************************)
(* What the outside world may answer                                       *)
(***************************************************************************)
TheDomain == "www.example.org"

Answer(records) == [dns_exception |-> FALSE, records |-> records]
NoAnswer == [dns_exception |-> TRUE, records |-> <<>>]

NsAnswer == Answer(<<"ns1.example.org.", "ns2.example.org.">>)

\* resolver behaviours: raises is an exception other than DNSException
\* leaving resolve_dns
DnsOutcomes ==
  { [raises |-> FALSE, duration |-> 120, a |-> Answer(<<"54.39.17.7">>),
     aaaa |-> NoAnswer, ns |-> NsAnswer],
    [raises |-> FALSE, duration |-> 35,
     a |-> Answer(<<"104.16.132.229", "104.16.133.229">>),
     aaaa |-> NoAnswer, ns |-> NsAnswer],
    [raises |-> FALSE, duration |-> 35, a |-> Answer(<<"140.82.121.4">>),
     aaaa |-> NoAnswer, ns |-> NoAnswer],
    [raises |-> FALSE, duration |-> 80, a |-> NoAnswer,
     aaaa |-> Answer(<<"2606:4700:10::6816:1400">>), ns |-> NsAnswer],
    [raises |-> FALSE, duration |-> 5000, a |-> NoAnswer, aaaa |-> NoAnswer,
     ns |-> NoAnswer],
    [raises |-> TRUE, duration |-> 0, a |-> NoAnswer, aaaa |-> NoAnswer,
     ns |-> NoAnswer] }

WhoisOutcomes ==
  { [raises |-> FALSE, registrar |-> "IANA", expiration_is_list |-> FALSE,
     expiration_date |-> 1944000000, expiration_dates |-> <<>>],
    [raises |-> FALSE, registrar |-> "Gandi SAS", expiration_is_list |-> TRUE,
     expiration_date |-> NoDate, expiration_dates |-> <<1800000000, 1900000000>>],
    [raises |-> TRUE, registrar |-> None, expiration_is_list |-> FALSE,
     expiration_date |-> NoDate, expiration_dates |-> <<>>] }

RdapResults(asn, description, network_country) ==
  [asn |-> asn, asn_description |-> description, country |-> None,
   network_country |-> network_country, contact_country |-> None,
   parent_country |-> None]

RdapOutcomes ==
  { [rdap_raises |-> FALSE, whois_raises |-> FALSE,
     results |-> RdapResults("16276", "OVH", "FR")],
    [rdap_raises |-> TRUE, whois_raises |-> FALSE,
     results |-> RdapResults("13335", "CLOUDFLARENET, US", None)],
    [rdap_raises |-> FALSE, whois_raises |-> FALSE,
     results |-> RdapResults("36459", "GITHUB, US", "US")],
    [rdap_raises |-> TRUE, whois_raises |-> TRUE,
     results |-> RdapResults(None, None, None)] }

HttpsOutcomes ==
  { [get_raises |-> FALSE, status_code |-> 200, server |-> "nginx",
     tls_raises |-> FALSE, not_after |-> 1790000000],
    [get_raises |-> FALSE, status_code |-> 503, server |-> None,
     tls_raises |-> FALSE, not_after |-> NoDate],
    [get_raises |-> FALSE, status_code |-> 200, server |-> "ECS",
     tls_raises |-> TRUE, not_after |-> NoDate],
    [get_raises |-> TRUE, status_code |-> 0, server |-> None,
     tls_raises |-> FALSE, not_after |-> NoDate] }

\* subprocess.run: "ok" is exit status 0, "nonzero" another exit status,
\* "missing" FileNotFoundError, "timeout" TimeoutExpired, "oserror" an
\* exception outside the handled three (PermissionError)
Ran(kind, stdout, ptr) == [kind |-> kind, stdout |-> stdout, ptr |-> ptr]

MtrHeader ==
  <<"Start: 2024-05-01T10:00:00+0200",
    "HOST: probe                     Loss%   Snt   Last   Avg  Best  Wrst StDev">>

MtrReportGithub ==
  MtrHeader \o
  <<"  1.|-- bbox.lan (192.168.1.254)   0.0%    10    1.0   1.0   1.0   1.0   0.0",
    "  2.|-- ???                       100.0    10    0.0   0.0   0.0   0.0   0.0",
    "  3.|-- ae-66-ae3.edge7.FRA.github.com (140.82.121.4)  0.0%    10    9.1",
    "  4.|-- a2.fra3.deploy.akamaitechnologies.com (23.1.2.3)  0.0%    10    9.4",
    "  5.|-- ae-66-ae3.edge7.fra.github.com (140.82.121.4)  0.0%    10    9.5">>

MtrReportOvh ==
  MtrHeader \o
  <<"  1. 10.0.0.1                      0.0%    10    0.4",
    "  2. be102.gra-g1-nc5.fr.eu        0.0%    10    4.2",
    "  3. 54.39.17.7                    0.0%    10    4.4">>

MtrReportAddresses ==
  MtrHeader \o
  <<"  1.|-- 80.10.255.25               0.0%    10    2.0",
    "  2.|-- 104.16.0.1                 0.0%    10    8.0">>

MtrReportSilent ==
  MtrHeader \o
  <<"  1.|-- ???                       100.0    10    0.0   0.0   0.0   0.0   0.0">>

Mtr6Report ==
  MtrHeader \o
  <<"  1.|-- 2a01:cb00::1               0.0%    10    2.0",
    "  2.|-- 2606:4700:10::6816:1400    0.0%    10    8.0">>

PtrTable == << <<"80.10.255.25", "ae1.cr1.par.transit.example.net">>,
               <<"54.39.17.7", "gw.fr">> >>

MtrOutcomes(ip_version) ==
  IF ip_version = "-4"
  THEN { Ran("ok", MtrReportGithub, <<>>), Ran("ok", MtrReportOvh, PtrTable),
         Ran("ok", MtrReportAddresses, PtrTable),
         Ran("ok", MtrReportSilent, <<>>),
         Ran("timeout", <<>>, <<>>), Ran("oserror", <<>>, <<>>) }
  ELSE { Ran("ok", Mtr6Report, <<>>), Ran("nonzero", MtrHeader, <<>>),
         Ran("missing", <<>>, <<>>) }

TracerouteReport ==
  <<"traceroute to 54.39.17.7 (54.39.17.7), 15 hops max, 60 byte packets",
    " 1  gw.example.net (192.0.2.1)  1.012 ms  0.981 ms  1.100 ms",
    " 2  * * *",
    " 3  be103.lil1-rbx1-sbb1-nc5.fr.eu (91.121.215.212)  4.211 ms  4.2 ms  4.3 ms",
    " 4  gw.example.net (192.0.2.1)  1.012 ms  0.981 ms  1.100 ms">>

TracerouteOutcomes ==
  { Ran("ok", TracerouteReport, <<>>), Ran("nonzero", <<>>, <<>>),
    Ran("missing", <<>>, <<>>) }

TracertReport ==
  <<"Tracing route to github.com [140.82.121.4]",
    "over a maximum of 15 hops:",
    "  1     1 ms     1 ms     1 ms  livebox.home [192.168.1.1]",
    "  2    10 ms     9 ms    10 ms  static.88-198-1-1.clients.your-server.de [88.198.1.1]",
    "  3     *        *        *     Request timed out.">>

TracertOutcomes ==
  { Ran("ok", TracertReport, <<>>), Ran("nonzero", <<>>, <<>>),
    Ran("timeout", <<>>, <<>>) }

(***************************************************************************)
(* healthcheck.py: HealthMonitor and the handlers of the health server     *)
(***************************************************************************)
\* None in a field that otherwise holds time.time(), which is never 0
NoTimestamp == NoDate

\* HealthMonitor.__init__ at time t
NewHealthMonitor(t) ==
  [start_time |-> t,
   last_scrape_timestamp |-> NoTimestamp,
   last_scrape_duration |-> NoTimestamp,
   last_scrape_errors |-> 0,
   total_scrapes |-> 0,
   total_errors |-> 0,
   enabled_domains_count |-> 0]

\* the statements of update_scrape_metrics inside 'with self._lock'
UpdateLines == <<"58", "59", "60", "61", "62", "63">>

\* one of them, run at time t on the monitor mon
UpdateStep(mon, line, t, args) ==
  CASE line = "58" -> [mon EXCEPT !.last_scrape_timestamp = t]
    [] line = "59" -> [mon EXCEPT !.last_scrape_duration = args.duration]
    [] line = "60" -> [mon EXCEPT !.last_scrape_errors = args.error_count]
    [] line = "61" -> [mon EXCEPT !.total_scrapes = @ + 1]
    [] line = "62" -> [mon EXCEPT !.total_errors = @ + args.error_count]
    [] line = "63" -> [mon EXCEPT !.enabled_domains_count = args.domains_count]

RECURSIVE UpdateFrom(_, _, _, _)
UpdateFrom(mon, k, t, args) ==
  IF k > Len(UpdateLines) THEN mon
  ELSE UpdateFrom(UpdateStep(mon, UpdateLines[k], t, args), k + 1, t, args)

\* variant: one call records the scrape twice
update_scrape_metrics_twice(mon, t, args) ==
  UpdateFrom(UpdateFrom(mon, 1, t, args), 1, t, args)

\* update_scrape_metrics run without interruption at time t
update_scrape_metrics(mon, t, args) == UpdateFrom(mon, 1, t, args)

\* the locals of get_status before its first statement; path is the
\* endpoint the handler serves
NewStatus(path) ==
  [pc |-> "72", path |-> path,
   status |-> "healthy", timestamp |-> NoTimestamp, uptime_seconds |-> 0,
   last_scrape_timestamp |-> NoTimestamp,
   last_scrape_duration |-> NoTimestamp,
   last_scrape_errors |-> 0, total_scrapes |-> 0, total_errors |-> 0,
   enabled_domains_count |-> 0]

\* get_status, one read of the monitor at a time: the statement at line
\* s.pc, run at time t against the monitor mon (no lock is taken)
GetStatusStep(s, mon, t) ==
  CASE s.pc = "72" -> [s EXCEPT !.timestamp = t,
                                !.uptime_seconds = t - mon.start_time,
                                !.status = "healthy", !.pc = "79"]
    [] s.pc = "79" ->
         IF mon.last_scrape_timestamp /= NoTimestamp
         THEN [s EXCEPT !.pc = "80"]
         ELSE [s EXCEPT !.status = IF s.uptime_seconds > 300
                                   THEN "unhealthy" ELSE @,
                        !.pc = "92"]
    [] s.pc = "80" ->
         IF s.timestamp - mon.last_scrape_timestamp > 600
         THEN [s EXCEPT !.status = "unhealthy", !.pc = "92"]
         ELSE [s EXCEPT !.pc = "83"]
    [] s.pc = "83" ->
         [s EXCEPT !.status = IF mon.last_scrape_errors > 0
                              THEN "degraded" ELSE @,
                   !.pc = "92"]
    [] s.pc = "92" -> [s EXCEPT !.last_scrape_timestamp = mon.last_scrape_timestamp, !.pc = "93"]
    [] s.pc = "93" -> [s EXCEPT !.last_scrape_duration = mon.last_scrape_duration, !.pc = "94"]
    [] s.pc = "94" -> [s EXCEPT !.last_scrape_errors = mon.last_scrape_errors, !.pc = "95"]
    [] s.pc = "95" -> [s EXCEPT !.total_scrapes = mon.total_scrapes, !.pc = "96"]
    [] s.pc = "96" -> [s EXCEPT !.total_errors = mon.total_errors, !.pc = "97"]
    [] s.pc = "97" -> [s EXCEPT !.enabled_domains_count = mon.enabled_domains_count, !.pc = "98"]

RECURSIVE RunGetStatus(_, _, _)
RunGetStatus(s, mon, t) ==
  IF s.pc = "98" THEN s ELSE RunGetStatus(GetStatusStep(s, mon, t), mon, t)

\* get_status run without interruption at time t
get_status(mon, t) == RunGetStatus(NewStatus("get_status"), mon, t)

\* _handle_health: the status code sent
_handle_health(status) ==
  IF status.status = "healthy" THEN 200
  ELSE IF status.status = "degraded" THEN 200
  ELSE 503

\* variant: ready only with a scrape and a young process
_handle_ready_both(status) ==
  IF status.last_scrape_timestamp /= NoTimestamp /\ status.uptime_seconds < 300
  THEN 200 ELSE 503

\* _handle_ready: the status code sent
_handle_ready(status) ==
  LET is_ready == \/ status.last_scrape_timestamp /= NoTimestamp
                  \/ status.uptime_seconds < 300
  IN IF is_ready THEN 200 ELSE 503

\* do_GET
do_GET(path, status) ==
  IF path = "/health" THEN _handle_health(status) ELSE _handle_ready(status)

(***************************************************************************)
(* core/config.py                                                          *)
(***************************************************************************)
\* a Python dict is a sequence of <<key, value>> pairs in insertion order
SetKey(d, k, v) ==
  IF HasKey(d, k)
  THEN [i \in 1..Len(d) |-> IF d[i][1] = k THEN <<k, v>> ELSE d[i]]
  ELSE Append(d, <<k, v>>)

\* d.get(k, default)
GetOr(d, k, default) == IF HasKey(d, k) THEN Get(d, k) ELSE default

\* int(s) of a str: surrounding blanks dropped, an optional sign, then
\* decimal digits; <<n>> is the value n and <<>> stands for ValueError
int_str(s) ==
  LET t == Strip(s)
      signed == t /= "" /\ CharAt(t, 1) \in {"+", "-"}
      n == int10(IF signed THEN SubSeq(t, 2, Len(t)) ELSE t)
  IN IF n = -1 THEN <<>>
     ELSE IF signed /\ CharAt(t, 1) = "-" THEN <<0 - n>>
     ELSE <<n>>

\* variant: DOURO_EXPORTER_INTERVAL is not looked at
apply_env_overrides_fileOnly(config_data, environ) ==
  [raised |-> None, message |-> "",
   config_data |->
     LET c == IF HasKey(config_data, "exporter") THEN config_data
              ELSE SetKey(config_data, "exporter", <<>>)
     IN IF HasKey(c, "monitoring") THEN c ELSE SetKey(c, "monitoring", <<>>)]

\* apply_env_overrides for an environment that may define
\* DOURO_EXPORTER_INTERVAL; raised is the exception int() lets escape
apply_env_overrides(config_data, environ) ==
  LET with_exporter == IF HasKey(config_data, "exporter") THEN config_data
                       ELSE SetKey(config_data, "exporter", <<>>)
      env_interval == GetOr(environ, "DOURO_EXPORTER_INTERVAL", None)
      parsed == IF Truthy(env_interval) THEN int_str(env_interval) ELSE <<>>
      with_interval ==
        IF parsed /= <<>>
        THEN SetKey(with_exporter, "exporter",
                    SetKey(Get(with_exporter, "exporter"),
                           "interval_seconds", parsed[1]))
        ELSE with_exporter
  IN IF Truthy(env_interval) /\ parsed = <<>>
     THEN [raised |-> "ValueError",
           message |-> "invalid literal for int() with base 10",
           config_data |-> with_exporter]
     ELSE [raised |-> None, message |-> "",
           config_data |-> IF HasKey(with_interval, "monitoring")
                           THEN with_interval
                           ELSE SetKey(with_interval, "monitoring", <<>>)]

\* DomainConfig(name=..., enabled=domain_data.get('enabled', True), ...)
DomainConfig(domain_data) ==
  [name |-> Get(domain_data, "name"),
   enabled |-> GetOr(domain_data, "enabled", TRUE),
   description |-> GetOr(domain_data, "description", "")]

\* variant: an interval of 29 seconds passes
IntervalTooShort_29(interval_seconds) == interval_seconds < 29

\* if exporter.interval_seconds < 30: raise ValueError
IntervalTooShort(interval_seconds) == interval_seconds < 30

Invalid(message) == [raised |-> "ValueError", message |-> message, config |-> <<>>]

\* parse_config, for domain entries that are objects with a name
parse_config(config_data) ==
  LET exporter_data == GetOr(config_data, "exporter", <<>>)
      exporter == [port |-> GetOr(exporter_data, "port", 9105),
                   interval_seconds |-> GetOr(exporter_data, "interval_seconds", 300),
                   timeout_seconds |-> GetOr(exporter_data, "timeout_seconds", 10)]
      monitoring_data == GetOr(config_data, "monitoring", <<>>)
      monitoring == [log_level |-> GetOr(monitoring_data, "log_level", "INFO"),
                     enable_verbose_logging |->
                       GetOr(monitoring_data, "enable_verbose_logging", FALSE)]
      domains_data == GetOr(config_data, "domains", <<>>)
      domains == [i \in 1..Len(domains_data) |-> DomainConfig(domains_data[i])]
  IN IF domains = <<>>
     THEN Invalid("Au moins un domaine doit etre configure")
     ELSE IF exporter.port < 1 \/ exporter.port > 65535
     THEN Invalid("Le port doit etre entre 1 et 65535")
     ELSE IF IntervalTooShort(exporter.interval_seconds)
     THEN Invalid("L'intervalle doit etre d'au moins 30 secondes")
     ELSE IF exporter.timeout_seconds < 1
     THEN Invalid("Le timeout doit etre d'au moins 1 seconde")
     ELSE IF monitoring.log_level \notin {"DEBUG", "INFO", "WARNING", "ERROR", "CRITICAL"}
     THEN Invalid("Le niveau de log doit etre l'un de ...")
     ELSE [raised |-> None, message |-> "",
           config |-> [exporter |-> exporter, domains |-> domains,
                       monitoring |-> monitoring]]

\* DouroConfig.get_enabled_domains
RECURSIVE EnabledNames(_)
EnabledNames(domains) ==
  IF domains = <<>> THEN <<>>
  ELSE IF Head(domains).enabled
       THEN <<Head(domains).name>> \o EnabledNames(Tail(domains))
       ELSE EnabledNames(Tail(domains))

\* variant: the disabled domains are returned too
get_enabled_domains_all(config) ==
  [i \in 1..Len(config.domains) |-> config.domains[i].name]

get_enabled_domains(config) == EnabledNames(config.domains)

\* validate_config: the exception it raises, if any
validate_config(config) ==
  IF get_enabled_domains(config) = <<>>
  THEN [raised |-> "ValueError",
        message |-> "Aucun domaine active dans la configuration"]
  ELSE [raised |-> None, message |-> ""]

(***************************************************************************)
(* State                                                                   *)
(***************************************************************************)
VARIABLES
  pc,            \* where analyze_domain / collect_metrics stands
  result,        \* the DomainInfo under construction
  answers,       \* what each probe of this run was answered, by stage
  provider_geo, region_geo,   \* locals of detect_hosting_region
  provider_ip, region_ip,
  hostnames,     \* hops collected by the traceroute driver
  mtr_round,     \* index into ['-4', '-6'] in run_mtr
  calls,         \* commands handed to subprocess.run, in order
  detect_ret,    \* what detect_hosting_region returned, <<>> before
  samples,       \* the Prometheus registry: (metric, labels) -> value
  m_pc,          \* where update_metrics stands (registry specification)
  m_round,       \* number of the collection being published
  m_infos,       \* its argument domain_infos
  m_todo,        \* the writes it still has to perform
  published,     \* registry contents at the end of each completed update
  scraped,       \* what the last GET /metrics read, <<>> before
  now,           \* what time.time() returns
  monitor,       \* the fields of the HealthMonitor
  interval,      \* exporter.interval_seconds of the configuration
  main_pc,       \* where main stands
  loop_pc,       \* where the thread of start_metrics_collection stands
  coll,          \* per thread, the locals of its call of collect_metrics
  wake_at,       \* when time.sleep(interval) of the loop returns
  events,        \* collections started and sleeps finished, in order
  u_pc,          \* next line of update_scrape_metrics, "idle" outside
  u_args,        \* its arguments
  g,             \* get_status: its next line, its locals, the HealthStatus
  snapshots,     \* the monitor as __init__ and each finished update left it
  loader         \* main up to the first collection: load_config and its locals

vars == <<pc, result, answers, provider_geo, region_geo,
          provider_ip, region_ip, hostnames, mtr_round, calls, detect_ret,
          samples, m_pc, m_round, m_infos, m_todo, published, scraped,
          now, monitor, interval, main_pc, loop_pc, coll, wake_at, events,
          u_pc, u_args, g, snapshots, loader>>

detectVars == <<provider_geo, region_geo, provider_ip, region_ip, hostnames,
                mtr_round, calls, detect_ret>>

registryVars == <<m_pc, m_round, m_infos, m_todo, published, scraped>>

exporterVars == <<interval, main_pc, loop_pc, coll, wake_at, events>>

probeVars == <<u_pc, u_args, g, snapshots>>

serviceVars == <<now, monitor, exporterVars, probeVars, loader>>

EmptyRegistry == <<>>

Both(pr) == Truthy(pr[1]) /\ Truthy(pr[2])

\* the address the region engine and WHOIS-IP work on
Target == result.ip_addresses[1]

(***************************************************************************)
(* analyze_domain, stage by stage                                          *)
(***************************************************************************)
PipelineInit ==
  /\ pc = "dns"
  /\ result = NewDomainInfo(TheDomain)
  /\ answers = <<>>
  /\ provider_geo = None /\ region_geo = None
  /\ provider_ip = None /\ region_ip = None
  /\ hostnames = <<>>
  /\ mtr_round = 1
  /\ calls = <<>>
  /\ detect_ret = <<>>
  /\ samples = EmptyRegistry

RegistryIdle ==
  /\ m_pc = "off" /\ m_round = 0 /\ m_infos = <<>> /\ m_todo = <<>>
  /\ published = {} /\ scraped = <<>>

\* main: health_monitor = HealthMonitor()
MonitorInit ==
  /\ now = 1700000000
  /\ monitor = NewHealthMonitor(now)

Threads == {"main", "loop"}

\* the locals of a thread that has not called collect_metrics; raised
\* notes the domains whose analyze_domain let an exception escape
NoCollection ==
  [pc |-> "idle", results |-> <<>>, start_time |-> NoTimestamp,
   error_count |-> 0, raised |-> {}]

ExporterIdle ==
  /\ interval = 0
  /\ main_pc = "off" /\ loop_pc = "off"
  /\ coll = [t \in Threads |-> NoCollection]
  /\ wake_at = NoTimestamp
  /\ events = <<>>

\* no probe and no update in flight
ProbesIdle ==
  /\ u_pc = 0 /\ u_args = <<>>
  /\ g = [NewStatus("none") EXCEPT !.pc = "idle"]
  /\ snapshots = {monitor}

\* main has not been started
LoaderIdle ==
  loader = [pc |-> "off", environ |-> <<>>, file |-> <<>>, config_data |-> <<>>,
            config |-> <<>>, raised |-> None, message |-> ""]

Init ==
  /\ PipelineInit /\ RegistryIdle /\ MonitorInit /\ ExporterIdle /\ ProbesIdle
  /\ LoaderIdle

\* try: resolve_dns ... except Exception: error['dns']; return when no IP
AfterDns(info, o) ==
  IF o.raises THEN WithError(info, "dns", "resolver error")
  ELSE LET r == resolve_dns(o)
       IN [info EXCEPT !.dns_resolve_duration = r[1],
                       !.ip_addresses = r[2],
                       !.ns_records = r[3]]

\* variant: the pipeline goes on without an address
ReturnsEarly_never(info) == FALSE

\* if not result.ip_addresses: return result
ReturnsEarly(info) == info.ip_addresses = <<>>

ResolveDns ==
  /\ pc = "dns"
  /\ \E o \in DnsOutcomes :
       /\ result' = AfterDns(result, o)
       /\ answers' = ("dns" :> o) @@ answers
       /\ pc' = IF ReturnsEarly(result') THEN "update_metrics" ELSE "whois_domain"
  /\ UNCHANGED <<detectVars, samples, registryVars, serviceVars>>

\* try: get_whois_info ... except Exception: error['whois_domain']
AfterWhoisDomain(info, w) ==
  LET r == get_whois_info(w)
  IN [info EXCEPT !.registrar = r[1], !.expiration_date = r[2]]

WhoisDomain ==
  /\ pc = "whois_domain"
  /\ \E w \in WhoisOutcomes :
       /\ result' = AfterWhoisDomain(result, w)
       /\ answers' = ("whois_domain" :> w) @@ answers
  /\ pc' = "whois_ip"
  /\ UNCHANGED <<detectVars, samples, registryVars, serviceVars>>

\* get_ip_whois on the first address, then CDN detection
AfterWhoisIp(info, rdap) ==
  LET r == get_ip_whois(rdap)
  IN [info EXCEPT !.asn = r[1], !.asn_org = r[2], !.country = r[3],
                  !.cdn_detected = is_cdn_ip(r[1], r[2])]

WhoisIp ==
  /\ pc = "whois_ip"
  /\ \E rdap \in RdapOutcomes :
       /\ result' = AfterWhoisIp(result, rdap)
       /\ answers' = ("whois_ip" :> rdap) @@ answers
  /\ pc' = "detect"
  /\ UNCHANGED <<detectVars, samples, registryVars, serviceVars>>

(***************************************************************************)
(* detect_hosting_region                                                   *)
(***************************************************************************)
\* variant: only the geolocation verdict returns early
EarlyVerdict_geoOnly(by_ip, by_geo) ==
  IF Both(by_geo) THEN by_geo ELSE <<>>

\* the two early returns: IP ranges on the target first, then geolocation;
\* <<>> when neither has provider and region
EarlyVerdict(by_ip, by_geo) ==
  IF Both(by_ip) THEN by_ip
  ELSE IF Both(by_geo) THEN by_geo
  ELSE <<>>

\* variant: the IP ranges of the hops are consulted before the hop match
FinalVerdict_rangesFirst(by_ip, by_geo, hops) ==
  LET by_tr == IF hops /= <<>> THEN detect_provider_and_region(hops) ELSE <<None, None>>
      by_ip_hostnames == IF hops /= <<>> THEN _analyze_ip_ranges(hops) ELSE <<None, None>>
  IN IF Both(by_ip_hostnames) THEN by_ip_hostnames
     ELSE IF Both(by_tr) THEN by_tr
     ELSE IF Truthy(by_ip[1]) THEN by_ip
     ELSE IF Truthy(by_geo[1]) THEN by_geo
     ELSE <<None, None>>

\* the rest of the function once run_mtr has returned hostnames
FinalVerdict(by_ip, by_geo, hops) ==
  LET by_tr == IF hops /= <<>> THEN detect_provider_and_region(hops) ELSE <<None, None>>
      by_ip_hostnames == IF hops /= <<>> THEN _analyze_ip_ranges(hops) ELSE <<None, None>>
  IN IF Both(by_tr) THEN by_tr
     ELSE IF Both(by_ip_hostnames) THEN by_ip_hostnames
     ELSE IF Truthy(by_ip[1]) THEN by_ip
     ELSE IF Truthy(by_geo[1]) THEN by_geo
     ELSE <<None, None>>

\* variant: analyze_domain stores the region and forgets the provider
Returns_regionOnly(p, r, hops) ==
  /\ detect_ret' = <<p, r, hops>>
  /\ result' = [result EXCEPT !.hosting_region = r]
  /\ pc' = "https"

\* detect_hosting_region returns (p, r, hops) into analyze_domain
Returns(p, r, hops) ==
  /\ detect_ret' = <<p, r, hops>>
  /\ result' = [result EXCEPT !.hosting_provider = p, !.hosting_region = r]
  /\ pc' = "https"

\* an exception leaves detect_hosting_region: except Exception in
\* analyze_domain records it under region_detection
Raises(message) ==
  /\ result' = WithError(result, "region_detection", message)
  /\ pc' = "https"
  /\ UNCHANGED detect_ret

DetectStart ==
  /\ pc = "detect"
  /\ LET by_geo == detect_via_ip_geolocation(Target, answers["whois_ip"])
         by_ip == _analyze_ip_ranges(<<Target>>)
         early == EarlyVerdict(by_ip, by_geo)
     IN /\ provider_geo' = by_geo[1] /\ region_geo' = by_geo[2]
        /\ provider_ip' = by_ip[1] /\ region_ip' = by_ip[2]
        /\ IF early /= <<>>
           THEN Returns(early[1], early[2], <<>>)
           ELSE /\ pc' = "mtr"
                /\ UNCHANGED <<result, detect_ret>>
  /\ UNCHANGED <<answers, hostnames, mtr_round, calls, samples,
                 registryVars, serviceVars>>

MtrVersions == <<"-4", "-6">>

\* the tool and address family of cmd (sudo is put in front for user douro)
MtrCommand(ip_version) == "mtr " \o ip_version

\* result.stdout.strip() is not empty
HasText(stdout) == \E i \in 1..Len(stdout) : Strip(stdout[i]) /= ""

\* what one round of the loop of run_mtr adds to hostnames
MtrRoundHosts(o) ==
  IF o.kind = "ok" /\ HasText(o.stdout)
  THEN _parse_mtr_output_enhanced(o.stdout, o.ptr)
  ELSE <<>>

\* one iteration of "for ip_version in ['-4', '-6']" of run_mtr
RunMtr ==
  /\ pc = "mtr"
  /\ \E o \in MtrOutcomes(MtrVersions[mtr_round]) :
       /\ calls' = Append(calls, MtrCommand(MtrVersions[mtr_round]))
       /\ answers' = (MtrVersions[mtr_round] :> o) @@ answers
       /\ IF o.kind = "oserror"
          THEN /\ Raises("permission denied")
               /\ UNCHANGED <<hostnames, mtr_round>>
          ELSE LET parsed == MtrRoundHosts(o)
               IN IF parsed /= <<>>
                  THEN /\ hostnames' = parsed
                       /\ pc' = "fuse"
                       /\ UNCHANGED <<result, detect_ret, mtr_round>>
                  ELSE /\ IF mtr_round < Len(MtrVersions)
                          THEN mtr_round' = mtr_round + 1 /\ pc' = "mtr"
                          ELSE mtr_round' = mtr_round /\ pc' = "traceroute"
                       /\ UNCHANGED <<result, detect_ret, hostnames>>
  /\ UNCHANGED <<provider_geo, region_geo, provider_ip, region_ip,
                 samples, registryVars, serviceVars>>

\* run_traceroute_fallback: traceroute
RunTraceroute ==
  /\ pc = "traceroute"
  /\ \E o \in TracerouteOutcomes :
       /\ calls' = Append(calls, "traceroute")
       /\ answers' = ("traceroute" :> o) @@ answers
       /\ CASE o.kind = "ok" ->
                 /\ hostnames' = _parse_traceroute_unix(o.stdout)
                 /\ pc' = "fuse"
                 /\ UNCHANGED <<result, detect_ret>>
            [] o.kind = "nonzero" ->
                 /\ pc' = "tracert"
                 /\ UNCHANGED <<result, detect_ret, hostnames>>
            [] OTHER ->
                 /\ pc' = "fuse"
                 /\ UNCHANGED <<result, detect_ret, hostnames>>
  /\ UNCHANGED <<provider_geo, region_geo, provider_ip, region_ip,
                 mtr_round, samples, registryVars, serviceVars>>

\* run_traceroute_fallback: tracert, after traceroute exited non-zero
RunTracert ==
  /\ pc = "tracert"
  /\ \E o \in TracertOutcomes :
       /\ calls' = Append(calls, "tracert")
       /\ answers' = ("tracert" :> o) @@ answers
       /\ CASE o.kind = "ok" ->
                 /\ hostnames' = _parse_traceroute_windows(o.stdout)
                 /\ pc' = "fuse"
                 /\ UNCHANGED <<result, detect_ret>>
            [] OTHER ->
                 /\ pc' = "fuse"
                 /\ UNCHANGED <<result, detect_ret, hostnames>>
  /\ UNCHANGED <<provider_geo, region_geo, provider_ip, region_ip,
                 mtr_round, samples, registryVars, serviceVars>>

\* the tail of detect_hosting_region, from "if hostnames:" to the end
DetectFinish ==
  /\ pc = "fuse"
  /\ LET v == FinalVerdict(<<provider_ip, region_ip>>, <<provider_geo, region_geo>>,
                           hostnames)
     IN Returns(v[1], v[2], hostnames)
  /\ UNCHANGED <<answers, provider_geo, region_geo, provider_ip,
                 region_ip, hostnames, mtr_round, calls, samples, registryVars, serviceVars>>

\* try: check_https ... except Exception: error['https']
AfterHttps(info, h) ==
  LET r == check_https(h)
  IN [info EXCEPT !.http_status = r[1], !.server_header = r[2],
                  !.tls_expiration = r[3]]

CheckHttps ==
  /\ pc = "https"
  /\ \E h \in HttpsOutcomes :
       /\ result' = AfterHttps(result, h)
       /\ answers' = ("https" :> h) @@ answers
  /\ pc' = "update_metrics"
  /\ UNCHANGED <<detectVars, samples, registryVars, serviceVars>>

\* collect_metrics: metrics.update_metrics(domains_info) on the result
UpdateMetrics ==
  /\ pc = "update_metrics"
  /\ samples' = update_metrics(samples, <<result>>, 0)
  /\ pc' = "done"
  /\ UNCHANGED <<result, answers, detectVars, registryVars, serviceVars>>

Next ==
  \/ ResolveDns
  \/ WhoisDomain
  \/ WhoisIp
  \/ DetectStart
  \/ RunMtr
  \/ RunTraceroute
  \/ RunTracert
  \/ DetectFinish
  \/ CheckHttps
  \/ UpdateMetrics

Spec == Init /\ [][Next]_vars

(***************************************************************************)
(* The registry between the collection thread and the HTTP server thread  *)
(* (start_metrics_collection / collect_metrics / start_http_server)        *)
(***************************************************************************)
\* collections the loop of start_metrics_collection is followed for
MaxRounds == 2

\* the domains of the configuration, in declared order
DeclaredDomains ==
  << [name |-> "a.example", enabled |-> TRUE, description |-> ""],
     [name |-> "off.example", enabled |-> FALSE, description |-> ""],
     [name |-> "b.example", enabled |-> TRUE, description |-> ""] >>

\* main: domains = config.get_enabled_domains()
MonitoredDomains == get_enabled_domains([domains |-> DeclaredDomains])

\* a DomainInfo as analyze_domain returns it for a domain that answers
\* the GET with status_code and presents a certificate
Healthy(domain, status_code) ==
  AfterHttps(
    AfterDns(NewDomainInfo(domain),
             [raises |-> FALSE, duration |-> 35,
              a |-> Answer(<<"140.82.121.4">>), aaaa |-> NoAnswer,
              ns |-> NoAnswer]),
    [get_raises |-> FALSE, status_code |-> status_code, server |-> "nginx",
     tls_raises |-> FALSE, not_after |-> 1790000000])

\* ... and for a domain whose resolution raised
Unresolved(domain) ==
  AfterDns(NewDomainInfo(domain),
           [raises |-> TRUE, duration |-> 0, a |-> NoAnswer,
            aaaa |-> NoAnswer, ns |-> NoAnswer])

\* what analyze_domains may hand to update_metrics in one collection
CollectedInfos ==
  { <<Healthy(MonitoredDomains[1], 200), Healthy(MonitoredDomains[2], 200)>>,
    <<Healthy(MonitoredDomains[1], 503), Unresolved(MonitoredDomains[2])>>,
    <<Unresolved(MonitoredDomains[1]), Healthy(MonitoredDomains[2], 503)>> }

PipelineIdle ==
  /\ pc = "off"
  /\ result = NewDomainInfo(TheDomain)
  /\ answers = <<>>
  /\ provider_geo = None /\ region_geo = None
  /\ provider_ip = None /\ region_ip = None
  /\ hostnames = <<>>
  /\ mtr_round = 1
  /\ calls = <<>>
  /\ detect_ret = <<>>

InitMetrics ==
  /\ PipelineIdle /\ MonitorInit /\ ExporterIdle /\ ProbesIdle /\ LoaderIdle
  /\ samples = EmptyRegistry
  /\ m_pc = "sleep" /\ m_round = 0 /\ m_infos = <<>> /\ m_todo = <<>>
  /\ published = {EmptyRegistry}
  /\ scraped = <<>>

pipelineVars == <<pc, result, answers, detectVars>>

\* collect_metrics up to the call of update_metrics
Collect ==
  /\ m_pc = "sleep"
  /\ m_round < MaxRounds
  /\ \E infos \in CollectedInfos :
       /\ m_infos' = infos
       /\ m_todo' = UpdateWrites(infos, 0)
  /\ m_round' = m_round + 1
  /\ m_pc' = "update_metrics"
  /\ UNCHANGED <<samples, published, scraped, pipelineVars, serviceVars>>

\* update_metrics: the next .set() / .info() of its loop
SetNext ==
  /\ m_pc = "update_metrics"
  /\ m_todo /= <<>>
  /\ samples' = SetSample(samples, Head(m_todo))
  /\ m_todo' = Tail(m_todo)
  /\ UNCHANGED <<m_pc, m_round, m_infos, published, scraped, pipelineVars, serviceVars>>

\* update_metrics returns; the loop goes to sleep until the next collection
UpdateDone ==
  /\ m_pc = "update_metrics"
  /\ m_todo = <<>>
  /\ published' = published \cup {samples}
  /\ m_pc' = "sleep"
  /\ UNCHANGED <<samples, m_round, m_infos, m_todo, scraped, pipelineVars, serviceVars>>

\* GET /metrics served by the thread of start_http_server
Scrape ==
  /\ scraped' = samples
  /\ UNCHANGED <<samples, m_pc, m_round, m_infos, m_todo, published,
                 pipelineVars, serviceVars>>

NextMetrics ==
  \/ Collect
  \/ SetNext
  \/ UpdateDone
  \/ Scrape

SpecMetrics == InitMetrics /\ [][NextMetrics]_vars

(***************************************************************************)
(* The HealthMonitor between the collecting thread, which calls            *)
(* update_scrape_metrics, and the health server thread, which calls        *)
(* get_status from _handle_health and _handle_ready                        *)
(***************************************************************************)
\* seconds of uptime the clock is followed for
MaxUptime == 900

\* calls of update_scrape_metrics that are followed
MaxScrapes == 2

\* error counts collect_metrics may hand over
ErrorCounts == {0, 2}

InitHealth ==
  /\ PipelineIdle /\ samples = EmptyRegistry /\ RegistryIdle
  /\ MonitorInit /\ ExporterIdle /\ ProbesIdle /\ LoaderIdle

idleVars == <<pipelineVars, samples, registryVars, exporterVars, loader>>

\* time passes
Tick ==
  /\ now - monitor.start_time < MaxUptime
  /\ now' = now + 300
  /\ UNCHANGED <<monitor, idleVars, probeVars>>

\* collect_metrics calls update_scrape_metrics, which takes the lock
UpdateCall ==
  /\ u_pc = 0
  /\ monitor.total_scrapes < MaxScrapes
  /\ \E error_count \in ErrorCounts :
       u_args' = [duration |-> 2, error_count |-> error_count,
                  domains_count |-> Len(MonitoredDomains)]
  /\ u_pc' = 1
  /\ UNCHANGED <<now, monitor, idleVars, g, snapshots>>

\* the next statement under the lock
UpdateNext ==
  /\ u_pc \in 1..Len(UpdateLines)
  /\ monitor' = UpdateStep(monitor, UpdateLines[u_pc], now, u_args)
  /\ u_pc' = u_pc + 1
  /\ UNCHANGED <<now, idleVars, u_args, g, snapshots>>

\* update_scrape_metrics releases the lock and returns
UpdateReturn ==
  /\ u_pc = Len(UpdateLines) + 1
  /\ u_pc' = 0 /\ u_args' = <<>>
  /\ snapshots' = snapshots \cup {monitor}
  /\ UNCHANGED <<now, monitor, idleVars, g>>

\* do_GET for /health or /ready calls get_status
Probe ==
  /\ g.pc = "idle"
  /\ \E path \in {"/health", "/ready"} : g' = NewStatus(path)
  /\ UNCHANGED <<now, monitor, idleVars, u_pc, u_args, snapshots>>

\* the next statement of get_status; it waits for no lock
GetStatusNext ==
  /\ g.pc \notin {"idle", "98"}
  /\ g' = GetStatusStep(g, monitor, now)
  /\ UNCHANGED <<now, monitor, idleVars, u_pc, u_args, snapshots>>

\* get_status has returned the HealthStatus g to the handler
Returning == g.pc = "98"

\* the status code the handler answers with
Code == do_GET(g.path, g)

\* the handler sends its response
Respond ==
  /\ g.pc = "98"
  /\ g' = [NewStatus("none") EXCEPT !.pc = "idle"]
  /\ UNCHANGED <<now, monitor, idleVars, u_pc, u_args, snapshots>>

NextHealth ==
  \/ Tick
  \/ UpdateCall
  \/ UpdateNext
  \/ UpdateReturn
  \/ Probe
  \/ GetStatusNext
  \/ Respond

SpecHealth == InitHealth /\ [][NextHealth]_vars

(***************************************************************************)
(* douro_exporter.py: main, the warm collection, the collection thread     *)
(* and the shutdown by KeyboardInterrupt                                   *)
(***************************************************************************)
\* calls of collect_metrics that are followed
MaxCollections == 3

\* values of exporter.interval_seconds that are followed
Intervals == {300, 900}

\* what analyze_domain may return for a domain
DomainOutcomes(domain) == {Healthy(domain, 200), Unresolved(domain)}

\* for info in domains_info: if info.error: error_count += len(info.error)
RECURSIVE CountErrors(_)
CountErrors(domains_info) ==
  IF domains_info = <<>> THEN 0
  ELSE Cardinality(DOMAIN Head(domains_info).error)
       + CountErrors(Tail(domains_info))

\* variant: the handler leaves the count as it is
ExceptCount_same(error_count) == error_count

\* except Exception: error_count += 1
ExceptCount(error_count) == error_count + 1

\* calls of collect_metrics so far
Started == Cardinality({i \in 1..Len(events) : events[i] = "collect"})

InitExporter ==
  /\ PipelineIdle /\ samples = EmptyRegistry /\ RegistryIdle
  /\ MonitorInit /\ ProbesIdle /\ LoaderIdle
  /\ interval \in Intervals
  /\ main_pc = "warm" /\ loop_pc = "off"
  /\ coll = [t \in Threads |-> NoCollection]
  /\ wake_at = NoTimestamp
  /\ events = <<>>

otherVars == <<pipelineVars, registryVars, probeVars, loader>>

\* thread t stands at its call of collect_metrics
AtCall(t) == IF t = "main" THEN main_pc = "warm" ELSE loop_pc = "collect"

\* thread t is inside collect_metrics
Inside(t) == IF t = "main" THEN main_pc = "collecting"
                          ELSE loop_pc = "collecting"

\* collect_metrics up to the call of analyze_domains
CollectBegin(t) ==
  /\ AtCall(t)
  /\ Started < MaxCollections
  /\ coll' = [coll EXCEPT ![t] = [NoCollection EXCEPT !.pc = "analyze",
                                                     !.start_time = now]]
  /\ events' = Append(events, "collect")
  /\ main_pc' = IF t = "main" THEN "collecting" ELSE main_pc
  /\ loop_pc' = IF t = "loop" THEN "collecting" ELSE loop_pc
  /\ UNCHANGED <<now, monitor, samples, interval, wake_at, otherVars>>

\* analyze_domains calls analyze_domain for the next domain of the list
EnterDomain(t) ==
  /\ Inside(t)
  /\ coll[t].pc = "analyze"
  /\ Len(coll[t].results) < Len(MonitoredDomains)
  /\ coll' = [coll EXCEPT ![t].pc = "domain"]
  /\ UNCHANGED <<now, monitor, samples, interval, main_pc, loop_pc, wake_at,
                 events, otherVars>>

\* analyze_domain returns and its result is appended
DomainReturns(t) ==
  /\ Inside(t)
  /\ coll[t].pc = "domain"
  /\ \E info \in DomainOutcomes(MonitoredDomains[Len(coll[t].results) + 1]) :
       coll' = [coll EXCEPT ![t].results = Append(@, info),
                            ![t].pc = "analyze"]
  /\ UNCHANGED <<now, monitor, samples, interval, main_pc, loop_pc, wake_at,
                 events, otherVars>>

\* an exception escapes analyze_domain: analyze_domains has no handler, so
\* it reaches the except branch of collect_metrics
DomainRaises(t) ==
  /\ Inside(t)
  /\ coll[t].pc = "domain"
  /\ coll' = [coll EXCEPT
                ![t].raised = @ \cup {MonitoredDomains[Len(coll[t].results) + 1]},
                ![t].pc = "except"]
  /\ UNCHANGED <<now, monitor, samples, interval, main_pc, loop_pc, wake_at,
                 events, otherVars>>

\* collect_metrics returns to thread t: main goes on to start the thread,
\* the loop goes to time.sleep(interval)
Return(t) ==
  /\ main_pc' = IF t = "main" THEN "start_thread" ELSE main_pc
  /\ loop_pc' = IF t = "loop" THEN "sleep" ELSE loop_pc
  /\ wake_at' = IF t = "loop" THEN now + interval ELSE wake_at

\* analyze_domains has returned: update_metrics, the count of the errors,
\* update_scrape_metrics
Publish(t) ==
  /\ Inside(t)
  /\ coll[t].pc = "analyze"
  /\ Len(coll[t].results) = Len(MonitoredDomains)
  /\ samples' = update_metrics(samples, coll[t].results, 0)
  /\ LET error_count == CountErrors(coll[t].results)
     IN /\ coll' = [coll EXCEPT ![t].error_count = error_count,
                                ![t].pc = "idle"]
        /\ monitor' = update_scrape_metrics(monitor, now,
                        [duration |-> now - coll[t].start_time,
                         error_count |-> error_count,
                         domains_count |-> Len(MonitoredDomains)])
  /\ Return(t)
  /\ UNCHANGED <<now, interval, events, otherVars>>

\* the except branch of collect_metrics
Fail(t) ==
  /\ Inside(t)
  /\ coll[t].pc = "except"
  /\ LET error_count == ExceptCount(coll[t].error_count)
     IN /\ coll' = [coll EXCEPT ![t].error_count = error_count,
                                ![t].pc = "idle"]
        /\ monitor' = update_scrape_metrics(monitor, now,
                        [duration |-> now - coll[t].start_time,
                         error_count |-> error_count,
                         domains_count |-> Len(MonitoredDomains)])
  /\ Return(t)
  /\ UNCHANGED <<now, samples, interval, events, otherVars>>

\* main: collection_thread.start()
StartThread ==
  /\ main_pc = "start_thread"
  /\ main_pc' = "idle"
  /\ loop_pc' = "collect"
  /\ UNCHANGED <<now, monitor, samples, interval, coll, wake_at, events,
                 otherVars>>

\* time.sleep(interval) returns and the loop starts over
Wake ==
  /\ loop_pc = "sleep"
  /\ now >= wake_at
  /\ loop_pc' = "collect"
  /\ events' = Append(events, "sleep")
  /\ UNCHANGED <<now, monitor, samples, interval, main_pc, coll, wake_at,
                 otherVars>>

\* KeyboardInterrupt in the main thread: caught only in the loop of
\* time.sleep(1), where main then returns; anywhere else it leaves main
\* uncaught.  Either way the process ends and the daemon thread with it.
Interrupt ==
  /\ main_pc \in {"warm", "collecting", "start_thread", "idle"}
  /\ main_pc' = IF main_pc = "idle" THEN "returned" ELSE "interrupted"
  /\ loop_pc' = IF loop_pc = "off" THEN "off" ELSE "killed"
  /\ UNCHANGED <<now, monitor, samples, interval, coll, wake_at, events,
                 otherVars>>

NextExporter ==
  \/ Tick
  \/ \E t \in Threads : CollectBegin(t)
  \/ \E t \in Threads : EnterDomain(t)
  \/ \E t \in Threads : DomainReturns(t)
  \/ \E t \in Threads : DomainRaises(t)
  \/ \E t \in Threads : Publish(t)
  \/ \E t \in Threads : Fail(t)
  \/ StartThread
  \/ Wake
  \/ Interrupt

SpecExporter == InitExporter /\ [][NextExporter]_vars

(***************************************************************************)
(* main, from load_config to the start of the collection loop              *)
(***************************************************************************)
JsonIntervals == {-5, 0, 29, 30, 31, 300, 900}

\* values of DOURO_EXPORTER_INTERVAL
EnvIntervals == {"", "29", "30", "31", "600", "-5", " 45 ", "soon"}

DomainSections ==
  { <<>>,
    << << <<"name", MonitoredDomains[1]>> >> >>,
    << << <<"name", MonitoredDomains[1]>>, <<"enabled", FALSE>> >> >>,
    << << <<"name", MonitoredDomains[1]>>, <<"enabled", FALSE>> >>,
       << <<"name", MonitoredDomains[2]>> >> >> }

ExporterSections ==
  {<<>>} \cup { << <<"interval_seconds", n>> >> : n \in JsonIntervals }

\* what json.load returns for the configuration file
ConfigFiles ==
  { << <<"domains", d>> >> : d \in DomainSections } \cup
  { << <<"exporter", e>>, <<"domains", d>> >> :
       e \in ExporterSections, d \in DomainSections }

\* os.environ
Environs ==
  {<<>>} \cup { << <<"DOURO_EXPORTER_INTERVAL", s>> >> : s \in EnvIntervals }

InitConfig ==
  /\ PipelineIdle /\ samples = EmptyRegistry /\ RegistryIdle
  /\ MonitorInit /\ ExporterIdle /\ ProbesIdle
  /\ \E file \in ConfigFiles, environ \in Environs :
       loader = [pc |-> "apply_env_overrides", environ |-> environ,
                 file |-> file, config_data |-> file, config |-> <<>>,
                 raised |-> None, message |-> ""]

startVars == <<pipelineVars, samples, registryVars, now, monitor, probeVars>>

\* load_config: config_data = apply_env_overrides(config_data)
ApplyEnvOverrides ==
  /\ loader.pc = "apply_env_overrides"
  /\ LET r == apply_env_overrides(loader.config_data, loader.environ)
     IN loader' = [loader EXCEPT !.config_data = r.config_data,
                                 !.raised = r.raised,
                                 !.message = r.message,
                                 !.pc = IF r.raised = None THEN "parse_config"
                                        ELSE "except"]
  /\ UNCHANGED <<startVars, exporterVars>>

\* load_config: return parse_config(config_data)
ParseConfig ==
  /\ loader.pc = "parse_config"
  /\ LET r == parse_config(loader.config_data)
     IN loader' = [loader EXCEPT !.config = r.config,
                                 !.raised = r.raised,
                                 !.message = r.message,
                                 !.pc = IF r.raised = None THEN "validate_config"
                                        ELSE "except"]
  /\ UNCHANGED <<startVars, exporterVars>>

\* main: validate_config(config)
ValidateConfig ==
  /\ loader.pc = "validate_config"
  /\ LET e == validate_config(loader.config)
     IN loader' = [loader EXCEPT !.raised = e.raised,
                                 !.message = e.message,
                                 !.pc = IF e.raised = None THEN "start"
                                        ELSE "except"]
  /\ UNCHANGED <<startVars, exporterVars>>

\* main: the servers are started and the first collect_metrics is called;
\* config.exporter.interval_seconds is what the loop thread will be given
StartCollection ==
  /\ loader.pc = "start"
  /\ interval' = loader.config.exporter.interval_seconds
  /\ main_pc' = "warm"
  /\ loader' = [loader EXCEPT !.pc = "started"]
  /\ UNCHANGED <<startVars, loop_pc, coll, wake_at, events>>

\* main: except ValueError: logging.error(...); sys.exit(1)
Exit ==
  /\ loader.pc = "except"
  /\ loader' = [loader EXCEPT !.pc = "exit"]
  /\ UNCHANGED <<startVars, exporterVars>>

NextConfig ==
  \/ ApplyEnvOverrides
  \/ ParseConfig
  \/ ValidateConfig
  \/ StartCollection
  \/ Exit

SpecConfig == InitConfig /\ [][NextConfig]_vars

(***************************************************************************)
(* detect_hosting_region on drawn targets, registry answers and hop lists  *)
(***************************************************************************)
MaxHops == 2

\* addresses around the Cloudflare IPv4 ranges, and one IPv6 address
RuleTargets ==
  {"104.16.132.229", "104.31.255.255", "104.32.0.1",
   "172.64.0.1", "172.68.1.1", "172.72.0.1", "2606:4700:10::6816:1400"}

\* the dictionary of lookup_rdap with the fields E1 reads
GeoResults(asn, description, country) ==
  [RdapResults(asn, description, country) EXCEPT !.country = country]

GeoAnswers ==
  { GeoResults("16509", "AMAZON-02", "US"),
    GeoResults("15169", "GOOGLE", "BE"),
    GeoResults("16276", "OVH", "FR"),
    GeoResults("16276", "OVH", "US"),
    GeoResults("13335", "CLOUDFLARENET", "US"),
    GeoResults("24940", "HETZNER-AS", "DE"),
    GeoResults("24940", "HETZNER-AS", "FI"),
    GeoResults("14061", "DIGITALOCEAN-ASN", "NL") }

Registry(results) ==
  [rdap_raises |-> FALSE, whois_raises |-> FALSE, results |-> results]

\* every target with one registry answer, every answer with one target
RuleInputs ==
  { <<t, Registry(GeoResults("36459", "GITHUB", "US"))>> : t \in RuleTargets } \cup
  { <<"2606:4700:10::6816:1400", Registry(a)>> : a \in GeoAnswers }

\* hops the driver can return: names that give a provider only, a provider
\* and a region, two providers, nothing, and addresses inside IP ranges
HopPool ==
  {"gw.ovh.net", "be102.gra-g1-nc5.fr.eu", "ae-66-ae3.edge7.fra.github.com",
   "core1.example.net", "ec2.rbx-g1.ovh.net", "2606:4700:10::6816:1400"}

HopLists == UNION { [1..n -> HopPool] : n \in 0..MaxHops }

InitRules ==
  /\ \E input \in RuleInputs :
       /\ result = [NewDomainInfo(TheDomain) EXCEPT !.ip_addresses = <<input[1]>>]
       /\ answers = ("whois_ip" :> input[2])
  /\ pc = "detect"
  /\ provider_geo = None /\ region_geo = None
  /\ provider_ip = None /\ region_ip = None
  /\ hostnames = <<>>
  /\ mtr_round = 1
  /\ calls = <<>>
  /\ detect_ret = <<>>
  /\ samples = EmptyRegistry
  /\ RegistryIdle /\ MonitorInit /\ ExporterIdle /\ ProbesIdle /\ LoaderIdle

\* hostnames = self.run_mtr(target, max_hops), for any list the driver may
\* return
RunMtrReturns ==
  /\ pc = "mtr"
  /\ hostnames' \in HopLists
  /\ pc' = "fuse"
  /\ UNCHANGED <<result, answers, provider_geo, region_geo, provider_ip,
                 region_ip, mtr_round, calls, detect_ret, samples,
                 registryVars, serviceVars>>

NextRules ==
  \/ DetectStart
  \/ RunMtrReturns
  \/ DetectFinish

SpecRules == InitRules /\ [][NextRules]_vars

(***************************************************************************)
(* Properties                                                              *)
(***************************************************************************)
\* detect_hosting_region has just returned into analyze_domain
Returned == pc = "https" /\ detect_ret /= <<>>

\* the pair a return value carries
Pair(ret) == <<ret[1], ret[2]>>

\* the four rules on the evidence of the current run
Rule1 == _analyze_ip_ranges(<<Target>>)
Rule2 == detect_via_ip_geolocation(Target, answers["whois_ip"])
Rule3 == HopScan(hostnames)
Rule4 == _analyze_ip_ranges(hostnames)

\* C1: detect_hosting_region returns the (provider, region) of the first
\* rule, in the order E2 on the target, E1, E3 over the hops, E2 over the
\* hops, that yields both; a later rule never wins over an earlier one that
\* yielded both.
C1_FirstRuleWins ==
  Returned =>
    IF Both(Rule1) THEN Pair(detect_ret) = Rule1
    ELSE IF Both(Rule2) THEN Pair(detect_ret) = Rule2
    ELSE IF Both(Rule3) THEN Pair(detect_ret) = Rule3
    ELSE IF Both(Rule4) THEN Pair(detect_ret) = Rule4
    ELSE TRUE

\* rule 3 and rule 4 both yield a pair, they differ, and rule 3 was returned
C1_Witness ==
  /\ Returned
  /\ ~Both(Rule1) /\ ~Both(Rule2)
  /\ Both(Rule3) /\ Both(Rule4) /\ Rule3 /= Rule4
  /\ Pair(detect_ret) = Rule3

\* C2: whatever a scraper reads from the registry is the registry as some
\* fully completed update_metrics left it (or the registry before the first
\* update): never a mix of iteration k and iteration k-1.
C2_ScrapeSeesCompletedIteration == scraped \in published

\* analyze_domain has returned
Analysed == pc \in {"update_metrics", "done"}

Asked(stage) == stage \in DOMAIN answers

\* the stages whose probe failed in this run
FailedStages ==
  {s \in {"whois_domain"} : Asked(s) /\ answers[s].raises}
  \cup {s \in {"whois_ip"} :
          Asked(s) /\ answers[s].rdap_raises /\ answers[s].whois_raises}
  \cup {s \in {"region_detection"} :
          \E c \in {"-4", "-6"} : Asked(c) /\ answers[c].kind = "oserror"}
  \cup {s \in {"https"} :
          Asked(s) /\ (answers[s].get_raises \/ answers[s].tls_raises)}

\* C3: for a domain with a resolved IP, when exactly one of the stages
\* whois_domain, whois_ip, region_detection, https fails, errors holds a
\* message under exactly that stage's name, and every later stage has run.
C3_SingleFailureRecorded ==
  (Analysed /\ result.ip_addresses /= <<>> /\ Cardinality(FailedStages) = 1) =>
    /\ DOMAIN result.error = FailedStages
    /\ \A s \in {"whois_domain", "whois_ip", "https"} : Asked(s)

\* the fields the stages after DNS own, at their defaults
DownstreamDefaults(info) ==
  /\ info.registrar = None /\ info.expiration_date = NoDate
  /\ info.asn = None /\ info.asn_org = None /\ info.country = None
  /\ info.hosting_provider = None /\ info.hosting_region = None
  /\ info.http_status = 0 /\ info.server_header = None
  /\ info.tls_expiration = NoDate /\ info.cdn_detected = FALSE

\* C4: when the DNS stage leaves ip_addresses empty, no later stage is
\* invoked, every downstream field keeps its default, and errors names no
\* stage other than dns.
C4_EmptyIpsReturnAtOnce ==
  (pc /= "dns" /\ result.ip_addresses = <<>>) =>
    /\ Analysed
    /\ DOMAIN answers = {"dns"}
    /\ calls = <<>> /\ detect_ret = <<>>
    /\ DownstreamDefaults(result)
    /\ DOMAIN result.error \subseteq {"dns"}

\* the resolver answered, without any address, and the run is over
C4_Witness ==
  /\ pc = "done"
  /\ ~answers["dns"].raises
  /\ result.ip_addresses = <<>>
  /\ result.ns_records = <<>>
  /\ result.dns_resolve_duration > 0

ScrapeError(stage) == Sample(samples, "douro_scrape_error", <<result.domain, stage>>)

\* C5: when the resolver yields no address, errors is exactly {dns: message}
\* and Metric Projection sets scrape_error for dns to 1 and for the other
\* four stages to 0.
C5_DnsFailureRecorded ==
  (pc = "done" /\ result.ip_addresses = <<>>) =>
    /\ DOMAIN result.error = {"dns"}
    /\ ScrapeError("dns") = 1
    /\ \A s \in StageSet \ {"dns"} : ScrapeError(s) = 0

\* C6: in every result of detect_hosting_region and every DomainInfo,
\* hosting_provider = none implies hosting_region = none.
C6_NoRegionWithoutProvider ==
  /\ detect_ret /= <<>> => (detect_ret[1] = None => detect_ret[2] = None)
  /\ result.hosting_provider = None => result.hosting_region = None

\* the engine went through the hops and returned no provider
C6_Witness ==
  /\ pc = "done"
  /\ detect_ret /= <<>> /\ detect_ret[3] /= <<>>
  /\ detect_ret[1] = None
  /\ result.hosting_provider = None

\* C7: when no rule yields both but E1 or E3 identified a provider alone,
\* detect_hosting_region returns (provider, none, hops) with that provider;
\* it returns (none, none, hops) only when no evidence source identified
\* any provider.
C7_ProviderAloneReturned ==
  (Returned /\ ~Both(Rule1) /\ ~Both(Rule2) /\ ~Both(Rule3) /\ ~Both(Rule4)) =>
    LET e1 == Rule2[1]
        e3 == detect_provider_and_region(hostnames)[1]
    IN /\ detect_ret[3] = hostnames
       /\ (Truthy(e1) \/ Truthy(e3)) =>
            (detect_ret[1] \in ({e1, e3} \ {None}) /\ detect_ret[2] = None)
       /\ detect_ret[1] = None =>
            (e1 = None /\ e3 = None /\ Rule1[1] = None)

\* C8: the traceroute driver is started only if neither E2 on the target
\* nor E1 produced provider and region; when one of them did, no subprocess
\* is started and the returned hop list is empty.
C8_TracerouteOnlyWhenNeeded ==
  /\ calls /= <<>> => (~Both(Rule1) /\ ~Both(Rule2))
  /\ (Returned /\ (Both(Rule1) \/ Both(Rule2))) =>
       (calls = <<>> /\ detect_ret[3] = <<>>)

\* E2 on the target produced both and the engine returned without a call
C8_Witness ==
  /\ Returned
  /\ Both(Rule1)
  /\ Pair(detect_ret) = Rule1
  /\ calls = <<>>

\* the IP-WHOIS answer of the run is ASN 16276 / OVH / FR
OvhFranceAnswer ==
  /\ Asked("whois_ip")
  /\ ~answers["whois_ip"].rdap_raises
  /\ answers["whois_ip"].results.asn = "16276"
  /\ answers["whois_ip"].results.network_country = "FR"

\* the region the first two octets of a French OVH address select
RegionByOctets(ip) ==
  IF StartsWith(ip, "54.39.") THEN "gra7"
  ELSE IF StartsWith(ip, "151.80.") THEN "rbx8"
  ELSE IF StartsWith(ip, "51.38.") THEN "sbg5"
  ELSE "gra7"

\* C9: for a target whose IP-WHOIS answer is ASN 16276 / OVH / FR,
\* detect_hosting_region returns provider ovh with the region the first two
\* octets select (54.39 gra7, 151.80 rbx8, 51.38 sbg5, otherwise gra7),
\* without consulting traceroute.
C9_OvhFranceByOctets ==
  (OvhFranceAnswer /\ ~Both(Rule1) /\ pc /= "detect") =>
    /\ calls = <<>>
    /\ detect_ret = <<"ovh", RegionByOctets(Target), <<>> >>

\* nothing answered for the domain: no address, or the GET raised
Unreachable ==
  \/ result.ip_addresses = <<>>
  \/ (Asked("https") /\ answers["https"].get_raises)

\* C10: in every DomainInfo returned, http_status = 0 iff errors contains
\* https or the domain was unreachable; otherwise http_status is the status
\* the GET observed.
C10_HttpStatusZeroIff ==
  Analysed =>
    /\ result.http_status = 0 <=> ("https" \in DOMAIN result.error \/ Unreachable)
    /\ result.http_status /= 0 => result.http_status = answers["https"].status_code

\* update_metrics has returned for the infos of the latest collection
Updated == m_pc = "sleep" /\ m_round > 0

\* C11: after update_metrics, for every domain of the list and every stage,
\* douro_scrape_error is 0 or 1, and it is 1 exactly when the stage is a key
\* of the errors of the domain's DomainInfo of that scrape.
C11_ScrapeErrorIffKey ==
  Updated =>
    \A i \in 1..Len(m_infos) : \A stage \in StageSet :
      LET v == Sample(samples, "douro_scrape_error",
                      <<m_infos[i].domain, stage>>)
      IN /\ v \in {0, 1}
         /\ v = 1 <=> stage \in DOMAIN m_infos[i].error

C11_Witness ==
  /\ Updated /\ m_round = MaxRounds
  /\ \E i \in 1..Len(m_infos) :
       /\ DOMAIN m_infos[i].error = {"dns"}
       /\ Sample(samples, "douro_scrape_error", <<m_infos[i].domain, "dns">>) = 1
       /\ Sample(samples, "douro_scrape_error", <<m_infos[i].domain, "https">>) = 0

\* the ASN is one of the CDN ASNs or the organisation name holds one of
\* the CDN keywords, whatever its case
CdnEvidence(asn, org) ==
  \/ asn \in cdn_asns
  \/ \E i \in 1..Len(cdn_keywords) : Contains(lower(org), cdn_keywords[i])

\* C12: cdn_detected is true only when the ASN of the first IP is a known
\* CDN ASN or its organisation name contains a known CDN keyword
\* (case-insensitive); for a pair matching neither, is_cdn_ip returns false.
C12_CdnNeedsEvidence ==
  /\ pc \notin {"off", "dns", "whois_domain", "whois_ip"} /\ result.ip_addresses /= <<>>
       => result.cdn_detected = is_cdn_ip(result.asn, result.asn_org)
  /\ result.cdn_detected => CdnEvidence(result.asn, result.asn_org)

C12_Witness ==
  /\ pc = "done"
  /\ result.cdn_detected
  /\ result.asn = "13335"
  /\ Contains(lower(result.asn_org), "cloudflare")

\* C13: after each update_metrics every per-domain value exposed is
\* derived from the DomainInfo of the latest scrape; no value of an earlier
\* scrape stays exposed when the latest scrape has no value for the field.
C13_NoStaleValue ==
  Updated => samples = update_metrics(EmptyRegistry, m_infos, 0)


\* C14: the exporter performs exactly one warm collection at start, and
\* every later collection is separated from the one before it by a sleep of
\* interval seconds: no two collections run back to back.
C14_SleepBetweenCollections ==
  /\ main_pc \notin {"warm", "interrupted"} => Head(events) = "collect"
  /\ \A i \in 1..(Len(events) - 1) :
       ~(events[i] = "collect" /\ events[i + 1] = "collect")

\* thread t has returned from a collect_metrics in which analyze_domain
\* raised
Failed(t) == coll[t].pc = "idle" /\ coll[t].raised /= {}

\* the result of domain is among results and its samples are exposed
Published(results, domain) ==
  \E i \in 1..Len(results) :
    /\ results[i].domain = domain
    /\ <<"douro_http_status_code", <<domain>>>> \in DOMAIN samples
    /\ Sample(samples, "douro_http_status_code", <<domain>>)
         = results[i].http_status

\* C15: if analysing one domain raises a pipeline-level exception, the
\* iteration's error count is increased by exactly 1 for it and the
\* scheduler proceeds to the next domain: the remaining domains of the
\* iteration are still analysed and their results published.
C15_OtherDomainsStillPublished ==
  \A t \in Threads :
    Failed(t) =>
      /\ coll[t].error_count
           = CountErrors(coll[t].results) + Cardinality(coll[t].raised)
      /\ \A i \in 1..Len(MonitoredDomains) :
           MonitoredDomains[i] \notin coll[t].raised
             => Published(coll[t].results, MonitoredDomains[i])

\* C16: no exception raised during a collection terminates the collection
\* loop: after a failed iteration the loop sleeps interval seconds and
\* starts a further iteration, and the failure shows in the Health Monitor
\* (last_scrape_errors > 0, state not healthy) until a later scrape
\* completes without error.
C16_FailureNeverFatal ==
  /\ [](monitor.last_scrape_errors > 0
          => get_status(monitor, now).status /= "healthy")
  /\ [](loop_pc = "sleep" /\ now >= wake_at => ENABLED Wake)
  /\ [](loop_pc = "collect" /\ Started < MaxCollections
          => ENABLED CollectBegin("loop"))
  /\ [][\A t \in Threads :
          Fail(t) => /\ monitor'.last_scrape_errors > 0
                     /\ monitor'.total_scrapes = monitor.total_scrapes + 1
                     /\ t = "loop" => /\ loop_pc' = "sleep"
                                      /\ wake_at' = now + interval]_vars
  /\ [][loop_pc = "sleep" => loop_pc' \in {"sleep", "collect", "killed"}]_vars
  /\ [][monitor.last_scrape_errors > 0 /\ monitor'.last_scrape_errors = 0
          => \E t \in Threads :
               Publish(t) /\ CountErrors(coll[t].results) = 0]_vars

C16_Witness ==
  /\ Failed("loop")
  /\ loop_pc = "collect"
  /\ Started < MaxCollections
  /\ monitor.last_scrape_errors > 0
  /\ get_status(monitor, now).status = "unhealthy"

\* C17: after a shutdown signal delivered at any point after startup the
\* exporter stops collecting at the next safe point and main returns
\* control to the host; no collection is left cut in the middle of a
\* domain's stage sequence.
C17_ShutdownAtSafePoint ==
  main_pc \in {"returned", "interrupted"} =>
    /\ main_pc = "returned"
    /\ \A t \in Threads : coll[t].pc /= "domain"

\* the six counters of a monitor, or of the HealthStatus built from it
Counters(m) ==
  <<m.last_scrape_timestamp, m.last_scrape_duration, m.last_scrape_errors,
    m.total_scrapes, m.total_errors, m.enabled_domains_count>>

\* the monitor as a scrape left it or, for the update in flight, will
\* leave it
ScrapeStates ==
  snapshots \cup (IF u_pc >= 2 THEN {UpdateFrom(monitor, u_pc, now, u_args)}
                  ELSE {})

\* C18: a get_status call that runs concurrently with update_scrape_metrics
\* returns counters that all belong to the same scrape, never a mix in
\* which some fields reflect the update and others do not.
C18_CountersOfOneScrape ==
  Returning => \E m \in ScrapeStates : Counters(g) = Counters(m)

\* the state the claim assigns to a monitor m looked at at time t
ClaimedState(m, t) ==
  IF \/ m.last_scrape_timestamp /= NoTimestamp
        /\ t - m.last_scrape_timestamp > 600
     \/ m.last_scrape_timestamp = NoTimestamp
        /\ t - m.start_time > 300
  THEN "unhealthy"
  ELSE IF m.last_scrape_errors > 0 THEN "degraded"
  ELSE "healthy"

\* C19: get_status classifies the process as unhealthy if the last scrape
\* ended more than 600 s ago or no scrape has completed and uptime exceeds
\* 300 s, otherwise as degraded if the last scrape recorded an error,
\* otherwise as healthy.
C19_Classification ==
  Returning => \E m \in ScrapeStates : g.status = ClaimedState(m, g.timestamp)

\* a scrape was recorded before time t
ScrapedBefore(t) ==
  \E m \in snapshots \cup {monitor} :
    m.last_scrape_timestamp /= NoTimestamp /\ m.last_scrape_timestamp < t

\* C20: GET /ready answers 200 if and only if at least one scrape has
\* completed or uptime is below 300 s, and 503 otherwise; once a scrape has
\* completed, /ready answers 200 at every later instant.
C20_ReadyRule ==
  Returning /\ g.path = "/ready" =>
    /\ Code = 200 <=> \/ g.last_scrape_timestamp /= NoTimestamp
                      \/ g.uptime_seconds < 300
    /\ Code /= 200 => Code = 503
    /\ g.last_scrape_timestamp /= NoTimestamp =>
         \E m \in snapshots \cup {monitor} :
           m.last_scrape_timestamp = g.last_scrape_timestamp
    /\ ScrapedBefore(g.timestamp) => Code = 200

C20_Witness ==
  /\ Returning /\ g.path = "/ready"
  /\ ScrapedBefore(g.timestamp)
  /\ g.uptime_seconds > 300
  /\ Code = 200

(***************************************************************************)
(* Configuration loading                                                   *)
(***************************************************************************)
\* the integer each value of DOURO_EXPORTER_INTERVAL denotes, if any
EnvIntervalValues ==
  << <<"29", 29>>, <<"30", 30>>, <<"31", 31>>, <<"600", 600>>,
     <<"-5", -5>>, <<" 45 ", 45>> >>

\* interval_seconds as the file gives it, 300 when it gives none
FileInterval ==
  GetOr(GetOr(loader.file, "exporter", <<>>), "interval_seconds", 300)

\* the interval the operator asked for: the override when it is set to an
\* integer, the file's value when no override is set; <<>> otherwise
AskedInterval ==
  LET s == GetOr(loader.environ, "DOURO_EXPORTER_INTERVAL", "")
  IN IF s = "" THEN <<FileInterval>>
     ELSE IF HasKey(EnvIntervalValues, s) THEN <<Get(EnvIntervalValues, s)>>
     ELSE <<>>

\* load_config has returned or raised
LoadDecided == loader.pc \notin {"off", "apply_env_overrides", "parse_config"}

\* load_config has returned a DouroConfig
LoadReturned ==
  \/ loader.pc \in {"validate_config", "start", "started"}
  \/ /\ loader.pc \in {"except", "exit"}
     /\ loader.message = validate_config([domains |-> <<>>]).message

\* C21: configuration loading accepts an interval of 30 seconds and every
\* larger integer, and rejects every smaller one with a ValueError, whether
\* the value stands in the JSON file or in DOURO_EXPORTER_INTERVAL; the
\* collection loop is never given an interval below 30.
C21_IntervalAtLeast30 ==
  /\ (LoadDecided /\ AskedInterval /= <<>> /\ AskedInterval[1] < 30)
       => (~LoadReturned /\ loader.raised = "ValueError")
  /\ (LoadDecided /\ AskedInterval /= <<>> /\ AskedInterval[1] >= 30
        /\ GetOr(loader.file, "domains", <<>>) /= <<>>)
       => (LoadReturned
           /\ loader.config.exporter.interval_seconds = AskedInterval[1])
  /\ loader.pc = "started" => (interval = AskedInterval[1] /\ interval >= 30)

\* the override 30 is accepted over a file that says less, and the loop is
\* about to be started with it
C21_Witness ==
  /\ loader.pc = "started"
  /\ interval = 30
  /\ FileInterval < 30

(***************************************************************************)
(* Traceroute driver                                                       *)
(***************************************************************************)
\* the tools of the driver, in the claimed order, and the key under which
\* the answer of each is kept
DriverTools == <<"mtr -4", "mtr -6", "traceroute", "tracert">>
DriverKeys == <<"-4", "-6", "traceroute", "tracert">>

\* the usable hops in the answer the i-th tool gave
Yield(i) ==
  LET o == answers[DriverKeys[i]]
  IN CASE i \in {1, 2} -> MtrRoundHosts(o)
       [] i = 3 -> IF o.kind = "ok" THEN _parse_traceroute_unix(o.stdout) ELSE <<>>
       [] i = 4 -> IF o.kind = "ok" THEN _parse_traceroute_windows(o.stdout) ELSE <<>>

\* run_mtr has returned to detect_hosting_region
DriverReturned == pc = "fuse"

\* C22: the traceroute driver tries mtr over IPv4, mtr over IPv6, traceroute
\* and tracert in this order, goes to the next tool whenever the current one
\* is missing, times out, fails or yields no usable hop, and returns the
\* hops of the first tool that yields one without running a later tool.
C22_DriverOrder ==
  DriverReturned =>
    \E n \in 1..Len(DriverTools) :
       /\ calls = SubSeq(DriverTools, 1, n)
       /\ \A i \in 1..(n - 1) : Yield(i) = <<>>
       /\ hostnames = Yield(n)
       /\ hostnames = <<>> => n = Len(DriverTools)

\* C24: every hop list the driver returns, whichever tool produced it, has
\* no element twice and keeps the hops in the order in which the tool's
\* output first shows them.
C24_HopsDistinctInOrder ==
  (DriverReturned /\ hostnames /= <<>>) =>
     /\ \A i, j \in 1..Len(hostnames) : i /= j => hostnames[i] /= hostnames[j]
     /\ hostnames = Dedup(Yield(Len(calls)), {})

(***************************************************************************)
(* Region engines on drawn inputs                                          *)
(***************************************************************************)
\* the provider a hop names: the first one, in declared order, one of whose
\* tokens the name contains
TokenProvider(h) ==
  LET i == FirstIndex({k \in 1..Len(provider_indicators) :
                         \E j \in 1..Len(provider_indicators[k][2]) :
                            Contains(h, provider_indicators[k][2][j])})
  IN IF i = 0 THEN None ELSE provider_indicators[i][1]

\* the first region of provider p, in declared order, one of whose patterns
\* is found in the name
PatternRegion(h, p) ==
  IF ~HasKey(region_patterns, p) THEN None
  ELSE LET regions == Get(region_patterns, p)
           i == FirstIndex({k \in 1..Len(regions) :
                              \E j \in 1..Len(regions[k][2]) :
                                 re_search(regions[k][2][j], h)})
       IN IF i = 0 THEN None ELSE regions[i][1]

NamesProvider(h) == Truthy(TokenProvider(lower(h)))

NamesBoth(h) ==
  NamesProvider(h) /\ Truthy(PatternRegion(lower(h), TokenProvider(lower(h))))

\* detect_hosting_region has returned, having called the driver
HopsReturned == pc = "https" /\ hostnames /= <<>>

\* C23: detect_provider_and_region returns the provider and the region of
\* the first hop, in traceroute order, that names a provider and matches a
\* region pattern of that provider, the region being the first in declared
\* order with a matching pattern; a hop that names a provider and no region
\* is passed over.
C23_FirstHopWithBoth ==
  LET k == FirstIndex({i \in 1..Len(hostnames) : NamesBoth(hostnames[i])})
  IN (HopsReturned /\ k /= 0) =>
       LET h == lower(hostnames[k])
           verdict == <<TokenProvider(h), PatternRegion(h, TokenProvider(h))>>
       IN /\ detect_provider_and_region(hostnames) = verdict
          /\ detect_ret = <<verdict[1], verdict[2], hostnames>>

\* a first hop that names a provider only, then the hop that was returned
C23_Witness ==
  /\ pc = "https"
  /\ Len(hostnames) = 2
  /\ NamesProvider(hostnames[1]) /\ ~NamesBoth(hostnames[1])
  /\ NamesBoth(hostnames[2])
  /\ detect_ret[1] = TokenProvider(lower(hostnames[2]))
  /\ Truthy(detect_ret[2])

\* C30: the IP-range analysis of the hops (rule 4) never decides: whenever
\* _analyze_ip_ranges over the hops gives a provider and a region,
\* detect_provider_and_region over the same hops has given both, and its
\* pair is the one detect_hosting_region returned.
C30_RangesOverHopsNeverDecide ==
  (HopsReturned /\ Both(_analyze_ip_ranges(hostnames))) =>
     /\ Both(detect_provider_and_region(hostnames))
     /\ <<detect_ret[1], detect_ret[2]>> = detect_provider_and_region(hostnames)

\* no hop names a provider with a region, an address among the hops lies in
\* a range with a region, and the returned region is the one of that range
C30_Witness ==
  /\ HopsReturned
  /\ \A i \in 1..Len(hostnames) : ~NamesBoth(hostnames[i])
  /\ Both(_analyze_ip_ranges(hostnames))
  /\ detect_ret[2] = _analyze_ip_ranges(hostnames)[2]

\* the address lies in 104.16.0.0/12 or in 172.64.0.0/13
InCloudflareV4(ip) ==
  /\ IsIPv4Text(ip)
  /\ LET first_octet == int10(Split(ip, ".")[1])
         second_octet == int10(Split(ip, ".")[2])
     IN \/ first_octet = 104 /\ second_octet \in 16..31
        \/ first_octet = 172 /\ second_octet \in 64..71

\* rule 3 or rule 4 has a provider and a region
HopsDecide ==
  /\ hostnames /= <<>>
  /\ \/ Both(detect_provider_and_region(hostnames))
     \/ Both(_analyze_ip_ranges(hostnames))

\* C25: for every IPv4 target in 104.16.0.0/12 or 172.64.0.0/13 the range
\* analysis of the target gives cloudflare without region, and so does
\* detect_hosting_region when no other rule gives a provider and a region.
C25_CloudflareV4Ranges ==
  (pc /= "detect" /\ InCloudflareV4(Target)) =>
     /\ _analyze_ip_ranges(<<Target>>) = <<"cloudflare", None>>
     /\ provider_ip = "cloudflare" /\ region_ip = None
     /\ (pc = "https" /\ ~HopsDecide) =>
          (detect_ret[1] = "cloudflare" /\ detect_ret[2] = None)

EnabledIndexes == {k \in 1..Len(DeclaredDomains) : DeclaredDomains[k].enabled}

\* name of the i-th enabled domain
NthEnabled(i) ==
  DeclaredDomains[CHOOSE k \in EnabledIndexes :
                    Cardinality({j \in EnabledIndexes : j <= k}) = i].name

\* C27: at most one collection is in progress at any time: the warm
\* collection of main has returned before the loop thread starts, and the
\* loop runs its iterations one after another.  Within a collection the
\* enabled domains are analysed one at a time in declared order, the i-th
\* result being the DomainInfo of the i-th enabled domain.
C27_OneCollectionInOrder ==
  /\ Cardinality({t \in Threads : coll[t].pc /= "idle"}) <= 1
  /\ loop_pc /= "off" => main_pc \notin {"warm", "collecting"}
  /\ \A t \in Threads :
       /\ Len(coll[t].results) <= Cardinality(EnabledIndexes)
       /\ \A i \in 1..Len(coll[t].results) :
            coll[t].results[i].domain = NthEnabled(i)
       /\ (coll[t].pc = "idle" /\ coll[t].start_time /= NoTimestamp
             /\ coll[t].raised = {})
            => Len(coll[t].results) = Cardinality(EnabledIndexes)

\* the loop has finished a collection of both enabled domains after the
\* warm collection of main
C27_Witness ==
  /\ main_pc = "idle" /\ loop_pc = "sleep"
  /\ coll["main"].pc = "idle" /\ Len(coll["main"].results) = 2
  /\ coll["loop"].pc = "idle" /\ Len(coll["loop"].results) = 2
  /\ coll["loop"].results[2].domain = "b.example"

\* calls of collect_metrics that have returned
ReturnedCalls == Started - Cardinality({t \in Threads : coll[t].pc /= "idle"})

\* C28: total_scrapes is the number of collect_metrics calls that have
\* returned, each call recording itself once, on the success path or on the
\* exception path; total_errors is the sum of the error counts those calls
\* recorded and is at least last_scrape_errors; last_scrape_timestamp is
\* none exactly when total_scrapes = 0.
C28_MonitorCounts ==
  /\ [](monitor.total_scrapes = ReturnedCalls)
  /\ [](monitor.total_errors >= monitor.last_scrape_errors)
  /\ []((monitor.last_scrape_timestamp = NoTimestamp) <=> (monitor.total_scrapes = 0))
  /\ [][\A t \in Threads :
          (Publish(t) \/ Fail(t)) =>
             /\ monitor'.total_scrapes = monitor.total_scrapes + 1
             /\ monitor'.last_scrape_errors = coll'[t].error_count
             /\ monitor'.total_errors = monitor.total_errors + coll'[t].error_count]_vars
  /\ [][monitor' /= monitor => \E t \in Threads : Publish(t) \/ Fail(t)]_vars

\* two calls have returned, the first with errors and the second without
C28_Witness ==
  /\ ReturnedCalls = 2
  /\ monitor.total_scrapes = 2
  /\ monitor.last_scrape_errors = 0
  /\ monitor.total_errors > 0

\* the process is up, main past the warm collection and the loop alive
LoopRunning == main_pc \in {"start_thread", "idle"} /\ loop_pc /= "killed"

\* the collection after the last recorded scrape is not overdue
OnSchedule == now - monitor.last_scrape_timestamp <= interval

\* C29: for every accepted interval, as long as the loop keeps running and
\* every scrape completes with zero errors, get_status never reports
\* unhealthy, and GET /health never answers 503, once the first scrape has
\* completed.
C29_NeverUnhealthy ==
  (/\ monitor.total_scrapes >= 1
   /\ monitor.total_errors = 0
   /\ LoopRunning
   /\ OnSchedule)
  => /\ get_status(monitor, now).status /= "unhealthy"
     /\ do_GET("/health", get_status(monitor, now)) /= 503

=============================================================================
